---- MODULE Spec2Model ----
(***************************************************************************)
(* Authentication core of the real-estate backend: the user-record store,  *)
(* the credential codec, the token service, the lockout policy, the auth   *)
(* flows of app/api/auth.py and the bearer resolution of                   *)
(* app/core/dependencies.py.  Time is counted in minutes.                  *)
(***************************************************************************)
EXTENDS Integers, Sequences, FiniteSets, TLC

(* ------------------------------ bounds -------------------------------- *)
\* The clock advances MaxTicks times at most, TickMinutes minutes a time.
MaxTicks == 3
TickMinutes == 5
\* Failed logins are explored while they leave the counter at MaxFailed at most.
MaxFailed == 5
\* A client keeps MaxHeld tokens at most.
MaxHeld == 2
\* An instant of the wall clock is read to TicksPerUnit parts of the unit a
\* token's timestamp counts in.
TicksPerUnit == 2

(* ------------------------- program constants -------------------------- *)
LOCK_THRESHOLD == 5
LOCK_MINUTES == 15
access_token_expire_minutes == 30
refresh_token_expire_days == 7
MINUTES_PER_DAY == 1440
RESET_TOKEN_MINUTES == 60
jwt_secret_key == "service-secret"

\* Python's None for an optional timestamp, and for an absent string.
None == -1
NoneStr == "None"

(* ------------------------------ domains ------------------------------- *)
UUIDs == {1, 2, 3}
\* Primary keys the store hands out (uuid4); UUID 3 never names a record.
UserIds == {1, 2}
\* The account the calls of the model work on; the other account is there to
\* be registered, looked up, reset and named by tokens.
Alice == "alice@example.com"
Bob == "bob@example.com"
Emails == {Alice, Bob}
GhostEmail == "ghost@example.com"
Passwords == {"Str0ng!Pass", "N3w!Passw"}
Salts == {"saltA"}
Statuses == {"active", "suspended", "banned"}
ForeignKey == "other-secret"

NoUser == [exists |-> FALSE]

(* -------------------------- credential codec -------------------------- *)
\* bcrypt.hashpw(password, salt): the digest embeds its salt; one-way, so a
\* digest equals another only for the same password and salt.
hashpw(password, salt) == [salt |-> salt, digest |-> <<salt, password>>]

\* hash_password draws a fresh salt: HashesOf is every value a call may return.
HashesOf(password) == {hashpw(password, s) : s \in Salts}

verify_password(plain_password, hashed_password) ==
    hashpw(plain_password, hashed_password.salt) = hashed_password

(* ------------------------------- uuid --------------------------------- *)
\* str(uuid.UUID) and uuid.UUID(str); UUID(str) raises ValueError on text
\* that is no UUID.
UUIDText == <<"uuid-1", "uuid-2", "uuid-3">>
str(id) == UUIDText[id]
IsUUIDText(s) == \E i \in UUIDs : UUIDText[i] = s
UUID(s) == CHOOSE i \in UUIDs : UUIDText[i] = s

(* --------------------------- token service ---------------------------- *)
\* A compact JWT: the signing key it was made with and its claims; a string
\* that is no JWT at all is Malformed.  A claim a token lacks is NoneStr
\* (what payload.get returns is then Python's None).
Claims(sub, email, roles, exp, type) ==
    [sub |-> sub, email |-> email, roles |-> roles, exp |-> exp, type |-> type]

NoClaims == Claims(NoneStr, NoneStr, <<>>, None, NoneStr)

Malformed == [wellformed |-> FALSE, key |-> NoneStr, claims |-> NoClaims]

jwt_encode(claims, key) == [wellformed |-> TRUE, key |-> key, claims |-> claims]

\* Variant: the expiry is not verified.
jwt_decode_raises_no_exp(token, key, t) ==
    \/ ~token.wellformed
    \/ token.key # key

\* jose.jwt.decode: JWTError on a malformed token, a signature made with
\* another key, or an expiry earlier than the current time.
jwt_decode_raises(token, key, t) ==
    \/ ~token.wellformed
    \/ token.key # key
    \/ token.claims.exp < t

DecodeFailed == [ok |-> FALSE, payload |-> NoClaims]

decode_token(token, t) ==
    IF jwt_decode_raises(token, jwt_secret_key, t)
    THEN DecodeFailed
    ELSE [ok |-> TRUE, payload |-> token.claims]

\* Variant: the subject is the email instead of the id.
create_access_token_sub_email(user_id, email, roles, t) ==
    jwt_encode(Claims(email, email, roles,
                      t + access_token_expire_minutes, "access"),
               jwt_secret_key)

\* Variant: the expiry is rounded up to the next multiple of the lifetime.
create_access_token_rounded(user_id, email, roles, t) ==
    jwt_encode(Claims(str(user_id), email, roles,
                      ((t \div access_token_expire_minutes) + 1)
                          * access_token_expire_minutes, "access"),
               jwt_secret_key)

create_access_token(user_id, email, roles, t) ==
    jwt_encode(Claims(str(user_id), email, roles,
                      t + access_token_expire_minutes, "access"),
               jwt_secret_key)

\* jwt.encode writes a datetime claim as a whole number of timestamp units:
\* the instant's fraction is dropped.
numeric_date(instant) == instant \div TicksPerUnit

\* Variant: a refresh token that lives as long as an access token.
create_refresh_token_short(user_id, t) ==
    jwt_encode(Claims(str(user_id), NoneStr, <<>>,
                      t + access_token_expire_minutes, "refresh"),
               jwt_secret_key)

create_refresh_token(user_id, t) ==
    jwt_encode(Claims(str(user_id), NoneStr, <<>>,
                      t + refresh_token_expire_days * MINUTES_PER_DAY, "refresh"),
               jwt_secret_key)

\* Variant: a reset token that lives a day.
create_password_reset_token_day(email, t) ==
    jwt_encode(Claims(NoneStr, email, <<>>, t + MINUTES_PER_DAY,
                      "password_reset"),
               jwt_secret_key)

create_password_reset_token(email, t) ==
    jwt_encode(Claims(NoneStr, email, <<>>, t + RESET_TOKEN_MINUTES,
                      "password_reset"),
               jwt_secret_key)

\* Variant: the type of the token is not looked at.
decode_password_reset_token_untyped(token, t) ==
    IF jwt_decode_raises(token, jwt_secret_key, t) THEN NoneStr
    ELSE token.claims.email

\* The email of a password-reset token, or NoneStr (Python's None).
decode_password_reset_token(token, t) ==
    IF jwt_decode_raises(token, jwt_secret_key, t) THEN NoneStr
    ELSE IF token.claims.type # "password_reset" THEN NoneStr
    ELSE token.claims.email

(* ----------------------------- user store ----------------------------- *)
\* users: the user table; now: the clock; last: the call being answered;
\* prev: the user table as that call found it; held: the tokens a client
\* has kept from the answers it was given; flight: the requests that are
\* being served at the same time, each with the row its session loaded.
VARIABLES users, prev, now, last, held, flight

vars == <<users, prev, now, last, held, flight>>

\* privacy_settings is a JSON object or None; of its keys the model keeps
\* hide_email and hide_phone, each "true", "false" or "unset" (not in the
\* object).  None and the empty object are both NoPrivacy.
NoPrivacy == [hide_email |-> "unset", hide_phone |-> "unset"]

\* Variant: a new account starts out verified.
NewUser_verified(email, phone, name, password_hash) ==
    [exists |-> TRUE, email |-> email, phone |-> phone, name |-> name,
     password_hash |-> password_hash,
     profile_photo |-> NoneStr, bio |-> NoneStr,
     roles |-> <<"seeker">>, verified |-> TRUE, status |-> "active",
     privacy_settings |-> NoPrivacy,
     failed_login_attempts |-> 0, locked_until |-> None,
     last_login_at |-> None]

\* User(email=..., phone=..., password_hash=..., name=..., roles=["seeker"],
\* verified=False, status="active") with the column defaults of the model.
NewUser(email, phone, name, password_hash) ==
    [exists |-> TRUE, email |-> email, phone |-> phone, name |-> name,
     password_hash |-> password_hash,
     profile_photo |-> NoneStr, bio |-> NoneStr,
     roles |-> <<"seeker">>, verified |-> FALSE, status |-> "active",
     privacy_settings |-> NoPrivacy,
     failed_login_attempts |-> 0, locked_until |-> None,
     last_login_at |-> None]

\* select(User).where(User.email == email) ... scalar_one_or_none()
ByEmail(U, email) == {i \in UserIds : U[i].exists /\ U[i].email = email}
\* select(User).where(User.id == id) ... scalar_one_or_none()
ById(U, id) == {i \in UserIds : U[i].exists /\ i = id}

Registered(U) == {i \in UserIds : U[i].exists}

(* ------------------------------ responses ----------------------------- *)
\* What the last call was given and what it answered: the HTTP status, the
\* detail, the tokens in the body and the principal a dependency resolved;
\* phone and name are registration inputs, body the object answered;
\* target, role and allowed are the inputs of the role operations, payload
\* the body of a profile update.
NoCall ==
    [op |-> "none", email |-> NoneStr, password |-> NoneStr,
     new_password |-> NoneStr, token |-> {}, code |-> 0, detail |-> <<>>,
     access |-> {}, refresh |-> {}, reset |-> {}, principal |-> 0,
     phone |-> NoneStr, name |-> NoneStr, body |-> {},
     target |-> 0, role |-> NoneStr, allowed |-> <<>>, payload |-> {}]

Call(op) == [NoCall EXCEPT !.op = op]

Answer(call, code, detail) == [call EXCEPT !.code = code, !.detail = detail]

Out(U, resp) == [users |-> U, resp |-> resp]

(* ---------------------------- account guard --------------------------- *)
\* Variant: the lock still blocks at the instant it expires.
check_lock_inclusive(user, t) == user.locked_until # None /\ user.locked_until >= t

\* Variant: the comparison is the wrong way round.
check_lock_inverted(user, t) == user.locked_until # None /\ user.locked_until < t

\* auth.py line 52: the lock blocks while locked_until is set and in the future.
check_lock(user, t) == user.locked_until # None /\ user.locked_until > t

\* Variant: the lock is set only by the failure that reaches the threshold.
record_failure_exact(user, t) ==
    LET n == user.failed_login_attempts + 1 IN
    IF n = LOCK_THRESHOLD
    THEN [user EXCEPT !.failed_login_attempts = n,
                      !.locked_until = t + LOCK_MINUTES]
    ELSE [user EXCEPT !.failed_login_attempts = n]

\* Variant: the lock is set one failure late.
record_failure_late(user, t) ==
    LET n == user.failed_login_attempts + 1 IN
    IF n > LOCK_THRESHOLD
    THEN [user EXCEPT !.failed_login_attempts = n,
                      !.locked_until = t + LOCK_MINUTES]
    ELSE [user EXCEPT !.failed_login_attempts = n]

\* auth.py lines 61-65: count the failure, lock at the threshold.
record_failure(user, t) ==
    LET n == user.failed_login_attempts + 1 IN
    IF n >= LOCK_THRESHOLD
    THEN [user EXCEPT !.failed_login_attempts = n,
                      !.locked_until = t + LOCK_MINUTES]
    ELSE [user EXCEPT !.failed_login_attempts = n]

\* Variant: the lock is left in place.
record_success_keeps_lock(user, t) ==
    [user EXCEPT !.failed_login_attempts = 0, !.last_login_at = t]

\* Variant: a successful login clears the lock and keeps the counter.
record_success_keeps_counter(user, t) ==
    [user EXCEPT !.locked_until = None, !.last_login_at = t]

\* auth.py lines 86-88
record_success(user, t) ==
    [user EXCEPT !.failed_login_attempts = 0, !.locked_until = None,
                 !.last_login_at = t]

(* ------------------------------ auth flows ---------------------------- *)
\* The details login answers with.
IncorrectCredentials == <<"Incorrect email or password">>
LockedTryLater ==
    <<"Account is locked due to too many failed login attempts. Try again later.">>
LockedFor15Minutes ==
    <<"Account locked due to too many failed login attempts. Try again in 15 minutes.">>

\* Variant: an unknown email is told apart.
unknown_email_404(call) == Answer(call, 404, <<"User not found">>)

\* auth.py lines 45-49: no user has the email.
unknown_email(call) == Answer(call, 401, IncorrectCredentials)

LoginCall(email, password) ==
    [Call("login") EXCEPT !.email = email, !.password = password]

\* Variant: the status is checked before the password.
login_status_first(U, t, email, password) ==
    LET call == LoginCall(email, password)
        found == ByEmail(U, email)
    IN
    IF found = {}
    THEN Out(U, unknown_email(call))
    ELSE
    LET id == CHOOSE i \in found : TRUE
        user == U[id]
    IN
    IF check_lock(user, t)
    THEN Out(U, Answer(call, 403, LockedTryLater))
    ELSE IF user.status # "active"
    THEN Out(U, Answer(call, 403, <<"Account is ", user.status>>))
    ELSE IF ~verify_password(password, user.password_hash)
    THEN LET failed == record_failure(user, t) IN
         IF failed.failed_login_attempts >= LOCK_THRESHOLD
         THEN Out([U EXCEPT ![id] = failed], Answer(call, 403, LockedFor15Minutes))
         ELSE Out([U EXCEPT ![id] = failed], Answer(call, 401, IncorrectCredentials))
    ELSE
    LET ok == record_success(user, t) IN
    Out([U EXCEPT ![id] = ok],
        [Answer(call, 200, <<"bearer">>) EXCEPT
            !.access = {create_access_token(id, ok.email, ok.roles, t)},
            !.refresh = {create_refresh_token(id, t)}])

\* Variant: an attempt made during the lock starts the 15 minutes anew.
login_extends_lock(U, t, email, password) ==
    LET call == LoginCall(email, password)
        found == ByEmail(U, email)
    IN
    IF found = {}
    THEN Out(U, unknown_email(call))
    ELSE
    LET id == CHOOSE i \in found : TRUE
        user == U[id]
    IN
    IF check_lock(user, t)
    THEN Out([U EXCEPT ![id].locked_until = t + LOCK_MINUTES],
             Answer(call, 403, LockedTryLater))
    ELSE IF ~verify_password(password, user.password_hash)
    THEN LET failed == record_failure(user, t) IN
         IF failed.failed_login_attempts >= LOCK_THRESHOLD
         THEN Out([U EXCEPT ![id] = failed], Answer(call, 403, LockedFor15Minutes))
         ELSE Out([U EXCEPT ![id] = failed], Answer(call, 401, IncorrectCredentials))
    ELSE IF user.status # "active"
    THEN Out(U, Answer(call, 403, <<"Account is ", user.status>>))
    ELSE
    LET ok == record_success(user, t) IN
    Out([U EXCEPT ![id] = ok],
        [Answer(call, 200, <<"bearer">>) EXCEPT
            !.access = {create_access_token(id, ok.email, ok.roles, t)},
            !.refresh = {create_refresh_token(id, t)}])

\* POST /login (auth.py lines 31-99).
login(U, t, email, password) ==
    LET call == LoginCall(email, password)
        found == ByEmail(U, email)
    IN
    IF found = {}
    THEN Out(U, unknown_email(call))
    ELSE
    LET id == CHOOSE i \in found : TRUE
        user == U[id]
    IN
    IF check_lock(user, t)
    THEN Out(U, Answer(call, 403, LockedTryLater))
    ELSE IF ~verify_password(password, user.password_hash)
    THEN LET failed == record_failure(user, t) IN
         IF failed.failed_login_attempts >= LOCK_THRESHOLD
         THEN Out([U EXCEPT ![id] = failed], Answer(call, 403, LockedFor15Minutes))
         ELSE Out([U EXCEPT ![id] = failed], Answer(call, 401, IncorrectCredentials))
    ELSE IF user.status # "active"
    THEN Out(U, Answer(call, 403, <<"Account is ", user.status>>))
    ELSE
    LET ok == record_success(user, t) IN
    Out([U EXCEPT ![id] = ok],
        [Answer(call, 200, <<"bearer">>) EXCEPT
            !.access = {create_access_token(id, ok.email, ok.roles, t)},
            !.refresh = {create_refresh_token(id, t)}])

\* Variant: the status is not looked at.
refresh_user_found(U, found) == found # {}

\* auth.py line 131: the subject's record exists and is active.
refresh_user_ok(U, found) == found # {} /\ \A i \in found : U[i].status = "active"

RefreshCall(token) == [Call("refresh") EXCEPT !.token = {token}]

\* Variant: a refresh token issued before the account's latest login is
\* no longer accepted.
refresh_access_token_latest(U, t, token) ==
    LET call == RefreshCall(token)
        decoded == decode_token(token, t)
        payload == decoded.payload
    IN
    IF ~decoded.ok \/ payload.type # "refresh"
    THEN Out(U, Answer(call, 401, <<"Invalid refresh token">>))
    ELSE IF payload.sub = NoneStr
    THEN Out(U, Answer(call, 401, <<"Invalid refresh token">>))
    ELSE IF ~IsUUIDText(payload.sub)
    THEN Out(U, Answer(call, 500, <<"Internal Server Error">>))
    ELSE
    LET found == ById(U, UUID(payload.sub)) IN
    IF ~refresh_user_ok(U, found)
    THEN Out(U, Answer(call, 401, <<"User not found or inactive">>))
    ELSE
    LET id == CHOOSE i \in found : TRUE IN
    IF payload.exp - refresh_token_expire_days * MINUTES_PER_DAY < U[id].last_login_at
    THEN Out(U, Answer(call, 401, <<"Invalid refresh token">>))
    ELSE
    Out(U, [Answer(call, 200, <<"bearer">>) EXCEPT
               !.access = {create_access_token(id, U[id].email, U[id].roles, t)},
               !.refresh = {create_refresh_token(id, t)}])

refresh_access_token(U, t, token) ==
    LET call == RefreshCall(token)
        decoded == decode_token(token, t)
        payload == decoded.payload
    IN
    IF ~decoded.ok \/ payload.type # "refresh"
    THEN Out(U, Answer(call, 401, <<"Invalid refresh token">>))
    ELSE IF payload.sub = NoneStr
    THEN Out(U, Answer(call, 401, <<"Invalid refresh token">>))
    \* UUID(user_id) is not guarded: its ValueError leaves the handler and
    \* the framework answers 500.
    ELSE IF ~IsUUIDText(payload.sub)
    THEN Out(U, Answer(call, 500, <<"Internal Server Error">>))
    ELSE
    LET found == ById(U, UUID(payload.sub)) IN
    IF ~refresh_user_ok(U, found)
    THEN Out(U, Answer(call, 401, <<"User not found or inactive">>))
    ELSE
    LET id == CHOOSE i \in found : TRUE IN
    Out(U, [Answer(call, 200, <<"bearer">>) EXCEPT
               !.access = {create_access_token(id, U[id].email, U[id].roles, t)},
               !.refresh = {create_refresh_token(id, t)}])

(* ------------------------ access control middleware ------------------- *)
\* get_current_user: the principal (a user id), or the HTTP error it raises.
Resolved(id) == [ok |-> TRUE, id |-> id, code |-> 200, detail |-> <<>>]
Rejected(code, detail) == [ok |-> FALSE, id |-> 0, code |-> code, detail |-> detail]

credentials_exception == Rejected(401, <<"Could not validate credentials">>)

\* Variant: a locked account's bearer token is refused as well.
get_current_user_unlocked(U, t, token) ==
    LET decoded == decode_token(token, t)
        payload == decoded.payload
    IN
    IF ~decoded.ok THEN credentials_exception
    ELSE IF payload.type # "access" THEN credentials_exception
    ELSE IF payload.sub = NoneStr THEN credentials_exception
    ELSE IF ~IsUUIDText(payload.sub) THEN credentials_exception
    ELSE
    LET found == ById(U, UUID(payload.sub)) IN
    IF found = {} THEN credentials_exception
    ELSE
    LET id == CHOOSE i \in found : TRUE IN
    IF U[id].status # "active" \/ check_lock(U[id], t)
    THEN Rejected(403, <<"User account is ", U[id].status>>)
    ELSE Resolved(id)

get_current_user(U, t, token) ==
    LET decoded == decode_token(token, t)
        payload == decoded.payload
    IN
    IF ~decoded.ok THEN credentials_exception
    ELSE IF payload.type # "access" THEN credentials_exception
    ELSE IF payload.sub = NoneStr THEN credentials_exception
    ELSE IF ~IsUUIDText(payload.sub) THEN credentials_exception
    ELSE
    LET found == ById(U, UUID(payload.sub)) IN
    IF found = {} THEN credentials_exception
    ELSE
    LET id == CHOOSE i \in found : TRUE IN
    IF U[id].status # "active"
    THEN Rejected(403, <<"User account is ", U[id].status>>)
    ELSE Resolved(id)

\* Variant: optional authentication resolves a user whatever its status.
get_optional_current_user_any_status(U, t, credentials) ==
    IF credentials = {} THEN 0
    ELSE
    LET token == CHOOSE x \in credentials : TRUE
        decoded == decode_token(token, t)
        payload == decoded.payload
    IN
    IF ~decoded.ok \/ payload.type # "access" THEN 0
    ELSE IF payload.sub = NoneStr THEN 0
    ELSE IF ~IsUUIDText(payload.sub) THEN 0
    ELSE
    LET found == ById(U, UUID(payload.sub)) IN
    IF found # {} THEN CHOOSE i \in found : TRUE ELSE 0

\* get_optional_current_user: credentials is a set, empty when the request
\* carries no Authorization header; the result is a user id or 0 (None).
get_optional_current_user(U, t, credentials) ==
    IF credentials = {} THEN 0
    ELSE
    LET token == CHOOSE x \in credentials : TRUE
        decoded == decode_token(token, t)
        payload == decoded.payload
    IN
    IF ~decoded.ok \/ payload.type # "access" THEN 0
    ELSE IF payload.sub = NoneStr THEN 0
    ELSE IF ~IsUUIDText(payload.sub) THEN 0
    ELSE
    LET found == ById(U, UUID(payload.sub)) IN
    IF \E i \in found : U[i].status = "active"
    THEN CHOOSE i \in found : TRUE
    ELSE 0

\* An endpoint behind Depends(get_current_user) answers the dependency's
\* error, or runs its body with the principal.
\* Variant: logging out forgets the login on record.
logout_forgets_login(U, t, token) ==
    LET call == [Call("logout") EXCEPT !.token = {token}]
        who == get_current_user(U, t, token)
    IN
    IF ~who.ok THEN Out(U, Answer(call, who.code, who.detail))
    ELSE Out([U EXCEPT ![who.id].last_login_at = None],
             [Answer(call, 200, <<"Successfully logged out">>)
                 EXCEPT !.principal = who.id])

logout(U, t, token) ==
    LET call == [Call("logout") EXCEPT !.token = {token}]
        who == get_current_user(U, t, token)
    IN
    IF ~who.ok THEN Out(U, Answer(call, who.code, who.detail))
    ELSE Out(U, [Answer(call, 200, <<"Successfully logged out">>)
                    EXCEPT !.principal = who.id])

(* --------------------------- password flows --------------------------- *)
GenericResetMessage == <<"If the email exists, a password reset link has been sent">>

\* The token issued is returned in the body of the answer (auth.py lines
\* 188-192).
request_password_reset(U, t, email) ==
    LET call == [Call("password-reset-request") EXCEPT !.email = email]
        found == ByEmail(U, email)
    IN
    IF found = {}
    THEN Out(U, Answer(call, 200, GenericResetMessage))
    ELSE
    LET id == CHOOSE i \in found : TRUE IN
    Out(U, [Answer(call, 200, GenericResetMessage) EXCEPT
               !.reset = {create_password_reset_token(U[id].email, t)}])

\* Variant: an unknown email is answered like a bad token.
confirm_password_reset_one_error(U, t, token, new_password, new_hash) ==
    LET call == [Call("password-reset-confirm") EXCEPT
                    !.token = {token}, !.new_password = new_password]
        email == decode_password_reset_token(token, t)
    IN
    IF email = NoneStr
    THEN Out(U, Answer(call, 400, <<"Invalid or expired reset token">>))
    ELSE
    LET found == ByEmail(U, email) IN
    IF found = {}
    THEN Out(U, Answer(call, 400, <<"Invalid or expired reset token">>))
    ELSE
    LET id == CHOOSE i \in found : TRUE IN
    Out([U EXCEPT ![id].password_hash = new_hash,
                  ![id].failed_login_attempts = 0,
                  ![id].locked_until = None],
        Answer(call, 200, <<"Password successfully reset">>))

\* Variant: the lockout state is left as it is.
confirm_password_reset_keeps_lock(U, t, token, new_password, new_hash) ==
    LET call == [Call("password-reset-confirm") EXCEPT
                    !.token = {token}, !.new_password = new_password]
        email == decode_password_reset_token(token, t)
    IN
    IF email = NoneStr
    THEN Out(U, Answer(call, 400, <<"Invalid or expired reset token">>))
    ELSE
    LET found == ByEmail(U, email) IN
    IF found = {}
    THEN Out(U, Answer(call, 404, <<"User not found">>))
    ELSE
    LET id == CHOOSE i \in found : TRUE IN
    Out([U EXCEPT ![id].password_hash = new_hash],
        Answer(call, 200, <<"Password successfully reset">>))

\* Variant: the password in use is refused as the new one.
confirm_password_reset_new_only(U, t, token, new_password, new_hash) ==
    LET call == [Call("password-reset-confirm") EXCEPT
                    !.token = {token}, !.new_password = new_password]
        email == decode_password_reset_token(token, t)
    IN
    IF email = NoneStr
    THEN Out(U, Answer(call, 400, <<"Invalid or expired reset token">>))
    ELSE
    LET found == ByEmail(U, email) IN
    IF found = {}
    THEN Out(U, Answer(call, 404, <<"User not found">>))
    ELSE
    LET id == CHOOSE i \in found : TRUE IN
    IF verify_password(new_password, U[id].password_hash)
    THEN Out(U, Answer(call, 400,
                <<"New password must be different from current password">>))
    ELSE
    Out([U EXCEPT ![id].password_hash = new_hash,
                  ![id].failed_login_attempts = 0,
                  ![id].locked_until = None],
        Answer(call, 200, <<"Password successfully reset">>))

\* new_hash is the value hash_password(new_password) returned.
confirm_password_reset(U, t, token, new_password, new_hash) ==
    LET call == [Call("password-reset-confirm") EXCEPT
                    !.token = {token}, !.new_password = new_password]
        email == decode_password_reset_token(token, t)
    IN
    IF email = NoneStr
    THEN Out(U, Answer(call, 400, <<"Invalid or expired reset token">>))
    ELSE
    LET found == ByEmail(U, email) IN
    IF found = {}
    THEN Out(U, Answer(call, 404, <<"User not found">>))
    ELSE
    LET id == CHOOSE i \in found : TRUE IN
    Out([U EXCEPT ![id].password_hash = new_hash,
                  ![id].failed_login_attempts = 0,
                  ![id].locked_until = None],
        Answer(call, 200, <<"Password successfully reset">>))

\* Variant: changing the password clears the lockout state as a reset does.
change_password_clears_lock(U, t, token, current_password, new_password, new_hash) ==
    LET call == [Call("change-password") EXCEPT
                    !.token = {token}, !.password = current_password,
                    !.new_password = new_password]
        who == get_current_user(U, t, token)
        id == who.id
        me == [call EXCEPT !.principal = id]
    IN
    IF ~who.ok THEN Out(U, Answer(call, who.code, who.detail))
    ELSE IF ~verify_password(current_password, U[id].password_hash)
    THEN Out(U, Answer(me, 401, <<"Current password is incorrect">>))
    ELSE IF current_password = new_password
    THEN Out(U, Answer(me, 400,
                <<"New password must be different from current password">>))
    ELSE Out([U EXCEPT ![id].password_hash = new_hash,
                       ![id].failed_login_attempts = 0,
                       ![id].locked_until = None],
             Answer(me, 200, <<"Password successfully changed">>))

change_password(U, t, token, current_password, new_password, new_hash) ==
    LET call == [Call("change-password") EXCEPT
                    !.token = {token}, !.password = current_password,
                    !.new_password = new_password]
        who == get_current_user(U, t, token)
        id == who.id
        me == [call EXCEPT !.principal = id]
    IN
    IF ~who.ok THEN Out(U, Answer(call, who.code, who.detail))
    ELSE IF ~verify_password(current_password, U[id].password_hash)
    THEN Out(U, Answer(me, 401, <<"Current password is incorrect">>))
    ELSE IF current_password = new_password
    THEN Out(U, Answer(me, 400,
                <<"New password must be different from current password">>))
    ELSE Out([U EXCEPT ![id].password_hash = new_hash],
             Answer(me, 200, <<"Password successfully changed">>))

(* ----------------------------- registration --------------------------- *)
\* The characters of the texts the registrations of the model submit.
LongPassword == "Aa1!aaaa...(128)"
TooLongPassword == "Aa1!aaaa...(129)"
Padded(n) == [i \in 1..n |-> IF i = 1 THEN "A" ELSE IF i = 3 THEN "1"
                              ELSE IF i = 4 THEN "!" ELSE "a"]
Text(s) ==
    CASE s = "Str0ng!Pass" -> <<"S", "t", "r", "0", "n", "g", "!", "P", "a", "s", "s">>
      [] s = "N3w!Passw" -> <<"N", "3", "w", "!", "P", "a", "s", "s", "w">>
      [] s = "Aa1!aaaa" -> <<"A", "a", "1", "!", "a", "a", "a", "a">>
      [] s = "Aa1!aaa" -> <<"A", "a", "1", "!", "a", "a", "a">>
      [] s = "str0ng!pass" -> <<"s", "t", "r", "0", "n", "g", "!", "p", "a", "s", "s">>
      [] s = "STR0NG!PASS" -> <<"S", "T", "R", "0", "N", "G", "!", "P", "A", "S", "S">>
      [] s = "Strong!Pass" -> <<"S", "t", "r", "o", "n", "g", "!", "P", "a", "s", "s">>
      [] s = "Str0ngPass" -> <<"S", "t", "r", "0", "n", "g", "P", "a", "s", "s">>
      [] s = "Str0ng_Pass" -> <<"S", "t", "r", "0", "n", "g", "_", "P", "a", "s", "s">>
      [] s = "+919876543210" -> <<"+", "9", "1", "9", "8", "7", "6", "5", "4", "3", "2", "1", "0">>
      [] s = "9876543211" -> <<"9", "8", "7", "6", "5", "4", "3", "2", "1", "1">>
      [] s = "0123456789" -> <<"0", "1", "2", "3", "4", "5", "6", "7", "8", "9">>
      [] s = "Alice A" -> <<"A", "l", "i", "c", "e", " ", "A">>
      [] s = "Bob B" -> <<"B", "o", "b", " ", "B">>
      [] s = "Hello" -> <<"H", "e", "l", "l", "o">>
      [] s = LongPassword -> Padded(128)
      [] s = TooLongPassword -> Padded(129)
      [] OTHER -> <<>>

\* The character classes [A-Z], [a-z], \d and [!@#$%^&*(),.?":{}|<>].
Uppercase ==
    {"A", "B", "C", "D", "E", "F", "G", "H", "I", "J", "K", "L",
     "M", "N", "O", "P", "Q", "R", "S", "T", "U", "V", "W", "X",
     "Y", "Z"}
Lowercase ==
    {"a", "b", "c", "d", "e", "f", "g", "h", "i", "j", "k", "l",
     "m", "n", "o", "p", "q", "r", "s", "t", "u", "v", "w", "x",
     "y", "z"}
Digits == {"0", "1", "2", "3", "4", "5", "6", "7", "8", "9"}
SpecialCharacters ==
    {"!", "@", "#", "$", "%", "^", "&", "*", "(", ")", ",", ".",
     "?", "\"", ":", "{", "}", "|", "<", ">"}

re_search(class, v) == \E i \in 1..Len(v) : v[i] \in class

\* Variant: the validator does not ask for a digit.
validate_password_strength_no_digit(v) ==
    IF Len(v) < 8 THEN TRUE
    ELSE IF ~re_search(Uppercase, v) THEN TRUE
    ELSE IF ~re_search(Lowercase, v) THEN TRUE
    ELSE IF ~re_search(SpecialCharacters, v) THEN TRUE
    ELSE FALSE

\* UserCreate.validate_password_strength: TRUE when it raises ValueError.
validate_password_strength_raises(v) ==
    IF Len(v) < 8 THEN TRUE
    ELSE IF ~re_search(Uppercase, v) THEN TRUE
    ELSE IF ~re_search(Lowercase, v) THEN TRUE
    ELSE IF ~re_search(Digits, v) THEN TRUE
    ELSE IF ~re_search(SpecialCharacters, v) THEN TRUE
    ELSE FALSE

\* phone: Optional[str] = Field(None, pattern=r"^\+?[1-9]\d{9,14}$")
phone_pattern(v) ==
    LET digits == IF Len(v) > 0 /\ v[1] = "+" THEN Tail(v) ELSE v IN
    /\ Len(digits) >= 10
    /\ Len(digits) <= 15
    /\ digits[1] \in Digits \ {"0"}
    /\ \A i \in 2..Len(digits) : digits[i] \in Digits

\* Validation of the request body against UserCreate: TRUE when a field
\* fails (the emails the model submits are well-formed addresses).
UserCreate_raises(phone, name, password) ==
    \/ phone # NoneStr /\ ~phone_pattern(Text(phone))
    \/ Len(Text(name)) < 1 \/ Len(Text(name)) > 255
    \/ Len(Text(password)) < 8 \/ Len(Text(password)) > 128
    \/ validate_password_strength_raises(Text(password))

\* select(User).where(User.phone == phone) ... scalar_one_or_none()
ByPhone(U, phone) == {i \in UserIds : U[i].exists /\ U[i].phone = phone}

\* The response model: the attributes of the user that UserResponse names.
UserResponse(U, id) ==
    [id |-> str(id), email |-> U[id].email, phone |-> U[id].phone,
     name |-> U[id].name, profile_photo |-> U[id].profile_photo,
     bio |-> U[id].bio, roles |-> U[id].roles,
     verified |-> U[id].verified, status |-> U[id].status,
     privacy_settings |-> U[id].privacy_settings]

\* Variant: the handler does not look for an account with the email.
register_user_no_email_check(U, email, phone, name, password, new_id, new_hash) ==
    LET call == [Call("register") EXCEPT !.email = email, !.password = password,
                                         !.phone = phone, !.name = name]
        created == [U EXCEPT ![new_id] = NewUser(email, phone, name, new_hash)]
    IN
    IF UserCreate_raises(phone, name, password)
    THEN Out(U, Answer(call, 422, <<"Unprocessable Entity">>))
    ELSE IF phone \notin {NoneStr, ""} /\ ByPhone(U, phone) # {}
    THEN Out(U, Answer(call, 400, <<"Phone number already registered">>))
    ELSE Out(created,
             [Answer(call, 201, <<"created">>) EXCEPT
                 !.principal = new_id, !.body = {UserResponse(created, new_id)}])

\* POST /register: the body is validated against UserCreate (422) before the
\* handler runs; new_id is the primary key uuid4 drew, new_hash what
\* hash_password returned.
register_user(U, email, phone, name, password, new_id, new_hash) ==
    LET call == [Call("register") EXCEPT !.email = email, !.password = password,
                                         !.phone = phone, !.name = name]
        created == [U EXCEPT ![new_id] = NewUser(email, phone, name, new_hash)]
    IN
    IF UserCreate_raises(phone, name, password)
    THEN Out(U, Answer(call, 422, <<"Unprocessable Entity">>))
    ELSE IF ByEmail(U, email) # {}
    THEN Out(U, Answer(call, 400, <<"Email already registered">>))
    ELSE IF phone \notin {NoneStr, ""} /\ ByPhone(U, phone) # {}
    THEN Out(U, Answer(call, 400, <<"Phone number already registered">>))
    ELSE Out(created,
             [Answer(call, 201, <<"created">>) EXCEPT
                 !.principal = new_id, !.body = {UserResponse(created, new_id)}])

(* -------------------------------- roles ------------------------------- *)
\* set(list): the values of a list.
Range(list) == {list[i] : i \in 1..Len(list)}

\* list.remove(x): the list without its first x.
list_remove(list, x) ==
    LET at == CHOOSE i \in 1..Len(list) :
                  list[i] = x /\ \A j \in 1..(i - 1) : list[j] # x
    IN SubSeq(list, 1, at - 1) \o SubSeq(list, at + 1, Len(list))

valid_roles == <<"seeker", "owner", "agent", "admin">>

\* Variant: the caller must hold every allowed role.
require_roles_all(U, t, token, allowed_roles) ==
    LET call == [Call("require-roles") EXCEPT
                    !.token = {token}, !.allowed = allowed_roles]
        who == get_current_user(U, t, token)
        id == who.id
        me == [call EXCEPT !.principal = id]
    IN
    IF ~who.ok THEN Out(U, Answer(call, who.code, who.detail))
    ELSE IF ~(Range(allowed_roles) \subseteq Range(U[id].roles))
    THEN Out(U, Answer(me, 403,
                <<"User does not have required role. Required: ", allowed_roles>>))
    ELSE Out(U, Answer(me, 200, <<>>))

\* An endpoint behind Depends(require_roles(allowed_roles)): role_checker
\* takes the user get_current_user returned and compares the roles of that
\* record with the allowed ones.
require_roles(U, t, token, allowed_roles) ==
    LET call == [Call("require-roles") EXCEPT
                    !.token = {token}, !.allowed = allowed_roles]
        who == get_current_user(U, t, token)
        id == who.id
        me == [call EXCEPT !.principal = id]
    IN
    IF ~who.ok THEN Out(U, Answer(call, who.code, who.detail))
    ELSE IF Range(U[id].roles) \cap Range(allowed_roles) = {}
    THEN Out(U, Answer(me, 403,
                <<"User does not have required role. Required: ", allowed_roles>>))
    ELSE Out(U, Answer(me, 200, <<>>))

\* Variant: the target is looked up before the caller is checked.
add_user_role_target_first(U, t, token, user_id, role, tracked) ==
    LET call == [Call("add-role") EXCEPT
                    !.token = {token}, !.target = user_id, !.role = role]
        who == get_current_user(U, t, token)
        id == who.id
        me == [call EXCEPT !.principal = id]
    IN
    IF ~who.ok THEN Out(U, Answer(call, who.code, who.detail))
    ELSE IF ById(U, user_id) = {}
    THEN Out(U, Answer(me, 404, <<"User not found">>))
    ELSE IF "admin" \notin Range(U[id].roles)
    THEN Out(U, Answer(me, 403, <<"Only admins can add roles">>))
    ELSE IF role \notin Range(valid_roles)
    THEN Out(U, Answer(me, 400, <<"Invalid role. Valid roles: ", valid_roles>>))
    ELSE
    LET roles == IF role \notin Range(U[user_id].roles)
                 THEN Append(U[user_id].roles, role)
                 ELSE U[user_id].roles
        stored == IF tracked THEN roles ELSE U[user_id].roles
    IN
    Out([U EXCEPT ![user_id].roles = stored],
        [Answer(me, 200, <<"Role '", role, "' added to user">>) EXCEPT
            !.body = {[roles |-> roles]}])

\* Variant: the role is appended whether or not the target holds it.
add_user_role_appends(U, t, token, user_id, role, tracked) ==
    LET call == [Call("add-role") EXCEPT
                    !.token = {token}, !.target = user_id, !.role = role]
        who == get_current_user(U, t, token)
        id == who.id
        me == [call EXCEPT !.principal = id]
    IN
    IF ~who.ok THEN Out(U, Answer(call, who.code, who.detail))
    ELSE IF "admin" \notin Range(U[id].roles)
    THEN Out(U, Answer(me, 403, <<"Only admins can add roles">>))
    ELSE IF ById(U, user_id) = {}
    THEN Out(U, Answer(me, 404, <<"User not found">>))
    ELSE IF role \notin Range(valid_roles)
    THEN Out(U, Answer(me, 400, <<"Invalid role. Valid roles: ", valid_roles>>))
    ELSE
    LET roles == IF TRUE
                 THEN Append(U[user_id].roles, role)
                 ELSE U[user_id].roles
        stored == IF tracked THEN roles ELSE U[user_id].roles
    IN
    Out([U EXCEPT ![user_id].roles = stored],
        [Answer(me, 200, <<"Role '", role, "' added to user">>) EXCEPT
            !.body = {[roles |-> roles]}])

\* Variant: the caller's roles are not looked at.
add_user_role_unchecked(U, t, token, user_id, role, tracked) ==
    LET call == [Call("add-role") EXCEPT
                    !.token = {token}, !.target = user_id, !.role = role]
        who == get_current_user(U, t, token)
        id == who.id
        me == [call EXCEPT !.principal = id]
    IN
    IF ~who.ok THEN Out(U, Answer(call, who.code, who.detail))
    ELSE IF ById(U, user_id) = {}
    THEN Out(U, Answer(me, 404, <<"User not found">>))
    ELSE IF role \notin Range(valid_roles)
    THEN Out(U, Answer(me, 400, <<"Invalid role. Valid roles: ", valid_roles>>))
    ELSE
    LET roles == IF role \notin Range(U[user_id].roles)
                 THEN Append(U[user_id].roles, role)
                 ELSE U[user_id].roles
        stored == IF tracked THEN roles ELSE U[user_id].roles
    IN
    Out([U EXCEPT ![user_id].roles = stored],
        [Answer(me, 200, <<"Role '", role, "' added to user">>) EXCEPT
            !.body = {[roles |-> roles]}])

\* roles is a plain ARRAY column, on which the ORM does not detect
\* list.append and list.remove: commit() writes the changed list only when
\* the change is tracked.  tracked tells whether later requests read the
\* changed list (they do when served from the session that holds the
\* object, as under tests/conftest.py) or the stored one; the answer shows
\* the changed list either way.
add_user_role(U, t, token, user_id, role, tracked) ==
    LET call == [Call("add-role") EXCEPT
                    !.token = {token}, !.target = user_id, !.role = role]
        who == get_current_user(U, t, token)
        id == who.id
        me == [call EXCEPT !.principal = id]
    IN
    IF ~who.ok THEN Out(U, Answer(call, who.code, who.detail))
    ELSE IF "admin" \notin Range(U[id].roles)
    THEN Out(U, Answer(me, 403, <<"Only admins can add roles">>))
    ELSE IF ById(U, user_id) = {}
    THEN Out(U, Answer(me, 404, <<"User not found">>))
    ELSE IF role \notin Range(valid_roles)
    THEN Out(U, Answer(me, 400, <<"Invalid role. Valid roles: ", valid_roles>>))
    ELSE
    LET roles == IF role \notin Range(U[user_id].roles)
                 THEN Append(U[user_id].roles, role)
                 ELSE U[user_id].roles
        stored == IF tracked THEN roles ELSE U[user_id].roles
    IN
    Out([U EXCEPT ![user_id].roles = stored],
        [Answer(me, 200, <<"Role '", role, "' added to user">>) EXCEPT
            !.body = {[roles |-> roles]}])

\* Variant: the admin check reads the roles claim of the access token.
remove_user_role_token_snapshot(U, t, token, user_id, role, tracked) ==
    LET call == [Call("remove-role") EXCEPT
                    !.token = {token}, !.target = user_id, !.role = role]
        who == get_current_user(U, t, token)
        id == who.id
        me == [call EXCEPT !.principal = id]
    IN
    IF ~who.ok THEN Out(U, Answer(call, who.code, who.detail))
    ELSE IF "admin" \notin Range(token.claims.roles)
    THEN Out(U, Answer(me, 403, <<"Only admins can remove roles">>))
    ELSE IF ById(U, user_id) = {}
    THEN Out(U, Answer(me, 404, <<"User not found">>))
    ELSE IF role \notin Range(U[user_id].roles)
    THEN Out(U, Answer(me, 400, <<"User does not have role '", role, "'">>))
    ELSE
    LET roles == list_remove(U[user_id].roles, role)
        stored == IF tracked THEN roles ELSE U[user_id].roles
    IN
    Out([U EXCEPT ![user_id].roles = stored],
        [Answer(me, 200, <<"Role '", role, "' removed from user">>) EXCEPT
            !.body = {[roles |-> roles]}])

remove_user_role(U, t, token, user_id, role, tracked) ==
    LET call == [Call("remove-role") EXCEPT
                    !.token = {token}, !.target = user_id, !.role = role]
        who == get_current_user(U, t, token)
        id == who.id
        me == [call EXCEPT !.principal = id]
    IN
    IF ~who.ok THEN Out(U, Answer(call, who.code, who.detail))
    ELSE IF "admin" \notin Range(U[id].roles)
    THEN Out(U, Answer(me, 403, <<"Only admins can remove roles">>))
    ELSE IF ById(U, user_id) = {}
    THEN Out(U, Answer(me, 404, <<"User not found">>))
    ELSE IF role \notin Range(U[user_id].roles)
    THEN Out(U, Answer(me, 400, <<"User does not have role '", role, "'">>))
    ELSE
    LET roles == list_remove(U[user_id].roles, role)
        stored == IF tracked THEN roles ELSE U[user_id].roles
    IN
    Out([U EXCEPT ![user_id].roles = stored],
        [Answer(me, 200, <<"Role '", role, "' removed from user">>) EXCEPT
            !.body = {[roles |-> roles]}])

(* ------------------------------- profile ------------------------------ *)
\* The body of a profile update is a JSON object; a payload gives, for each
\* key the model sends, the set of its values: empty when the key is not in
\* the object, {NoneStr} when it is null.  roles and email are keys the
\* UserUpdate schema does not have.
UpdateFields == {"name", "phone", "profile_photo", "bio", "privacy_settings"}
PayloadKeys == UpdateFields \cup {"roles", "email"}
EmptyPayload == [k \in PayloadKeys |-> {}]

\* Validation of the body against UserUpdate: TRUE when a field fails.
UserUpdate_raises(payload) ==
    \/ \E v \in payload.name :
          v # NoneStr /\ (Len(Text(v)) < 1 \/ Len(Text(v)) > 255)
    \/ \E v \in payload.phone : v # NoneStr /\ ~phone_pattern(Text(v))
    \/ \E v \in payload.bio : v # NoneStr /\ Len(Text(v)) > 1000

\* update_data.model_dump(exclude_unset=True): the fields of the schema that
\* the body set; keys the schema does not have were dropped on parsing.
model_dump(payload) == [k \in UpdateFields |-> payload[k]]

Given(values, old) == IF values = {} THEN old ELSE CHOOSE v \in values : TRUE

\* for key, value in update_dict.items(): setattr(current_user, key, value)
setattr_all(user, update_dict) ==
    [user EXCEPT
        !.name = Given(update_dict.name, @),
        !.phone = Given(update_dict.phone, @),
        !.profile_photo = Given(update_dict.profile_photo, @),
        !.bio = Given(update_dict.bio, @),
        !.privacy_settings = Given(update_dict.privacy_settings, @)]

\* Variant: the path id is not compared with the caller.
update_user_profile_any_target(U, t, token, user_id, payload) ==
    LET call == [Call("update-profile") EXCEPT
                    !.token = {token}, !.target = user_id, !.payload = {payload}]
        who == get_current_user(U, t, token)
        id == who.id
        me == [call EXCEPT !.principal = id]
        update_dict == model_dump(payload)
        updated == [U EXCEPT ![id] = setattr_all(U[id], update_dict)]
    IN
    IF ~who.ok THEN Out(U, Answer(call, who.code, who.detail))
    ELSE IF UserUpdate_raises(payload)
    THEN Out(U, Answer(me, 422, <<"Unprocessable Entity">>))
    ELSE IF \E v \in payload.phone :
                /\ v \notin {NoneStr, ""}
                /\ \E i \in UserIds : U[i].exists /\ U[i].phone = v /\ i # user_id
    THEN Out(U, Answer(me, 400, <<"Phone number already in use">>))
    ELSE IF NoneStr \in update_dict.name
    THEN Out(U, Answer(me, 500, <<"Internal Server Error">>))
    ELSE Out(updated,
             [Answer(me, 200, <<>>) EXCEPT !.body = {UserResponse(updated, id)}])

\* Variant: the body is applied as sent, without the schema.
update_user_profile_all_keys(U, t, token, user_id, payload) ==
    LET call == [Call("update-profile") EXCEPT
                    !.token = {token}, !.target = user_id, !.payload = {payload}]
        who == get_current_user(U, t, token)
        id == who.id
        me == [call EXCEPT !.principal = id]
        update_dict == payload
        updated ==
            [U EXCEPT ![id] =
                [setattr_all(U[id], model_dump(payload)) EXCEPT
                    !.roles = Given(update_dict.roles, @),
                    !.email = Given(update_dict.email, @)]]
    IN
    IF ~who.ok THEN Out(U, Answer(call, who.code, who.detail))
    ELSE IF UserUpdate_raises(payload)
    THEN Out(U, Answer(me, 422, <<"Unprocessable Entity">>))
    ELSE IF id # user_id
    THEN Out(U, Answer(me, 403, <<"You can only update your own profile">>))
    ELSE IF \E v \in payload.phone :
                /\ v \notin {NoneStr, ""}
                /\ \E i \in UserIds : U[i].exists /\ U[i].phone = v /\ i # user_id
    THEN Out(U, Answer(me, 400, <<"Phone number already in use">>))
    ELSE IF NoneStr \in update_dict.name
    THEN Out(U, Answer(me, 500, <<"Internal Server Error">>))
    ELSE Out(updated,
             [Answer(me, 200, <<>>) EXCEPT !.body = {UserResponse(updated, id)}])

\* PUT /{user_id}/profile.  The dependency is resolved and the body validated
\* (422) before the handler runs; name is NOT NULL in the table, so a null
\* name fails at commit (500) and nothing is written.
update_user_profile(U, t, token, user_id, payload) ==
    LET call == [Call("update-profile") EXCEPT
                    !.token = {token}, !.target = user_id, !.payload = {payload}]
        who == get_current_user(U, t, token)
        id == who.id
        me == [call EXCEPT !.principal = id]
        update_dict == model_dump(payload)
        updated == [U EXCEPT ![id] = setattr_all(U[id], update_dict)]
    IN
    IF ~who.ok THEN Out(U, Answer(call, who.code, who.detail))
    ELSE IF UserUpdate_raises(payload)
    THEN Out(U, Answer(me, 422, <<"Unprocessable Entity">>))
    ELSE IF id # user_id
    THEN Out(U, Answer(me, 403, <<"You can only update your own profile">>))
    ELSE IF \E v \in payload.phone :
                /\ v \notin {NoneStr, ""}
                /\ \E i \in UserIds : U[i].exists /\ U[i].phone = v /\ i # user_id
    THEN Out(U, Answer(me, 400, <<"Phone number already in use">>))
    ELSE IF NoneStr \in update_dict.name
    THEN Out(U, Answer(me, 500, <<"Internal Server Error">>))
    ELSE Out(updated,
             [Answer(me, 200, <<>>) EXCEPT !.body = {UserResponse(updated, id)}])

\* PATCH /{user_id}/profile
partial_update_profile(U, t, token, user_id, payload) ==
    update_user_profile(U, t, token, user_id, payload)

\* privacy.get(key, False), as a truth value.
dict_get(privacy, key) == privacy[key] = "true"

\* Variant: a caller who is not authenticated is shown everything.
get_user_profile_open_to_anonymous(U, t, credentials, user_id) ==
    LET call == [Call("view-profile") EXCEPT
                    !.token = credentials, !.target = user_id,
                    !.principal = get_optional_current_user(U, t, credentials)]
        current_user == get_optional_current_user(U, t, credentials)
    IN
    IF ById(U, user_id) = {}
    THEN Out(U, Answer(call, 404, <<"User not found">>))
    ELSE
    LET user == U[user_id]
        is_own_profile == current_user = 0 \/ current_user = user_id
        privacy == user.privacy_settings
        response_data ==
            [id |-> str(user_id), name |-> user.name,
             profile_photo |-> user.profile_photo, bio |-> user.bio,
             roles |-> user.roles, verified |-> user.verified,
             email |-> IF is_own_profile \/ ~dict_get(privacy, "hide_email")
                       THEN user.email ELSE NoneStr,
             phone |-> IF is_own_profile \/ ~dict_get(privacy, "hide_phone")
                       THEN user.phone ELSE NoneStr]
    IN
    Out(U, [Answer(call, 200, <<>>) EXCEPT !.body = {response_data}])

\* GET /{user_id}/profile; UserProfileResponse gives email and phone as null
\* when the handler left them out.
get_user_profile(U, t, credentials, user_id) ==
    LET call == [Call("view-profile") EXCEPT
                    !.token = credentials, !.target = user_id,
                    !.principal = get_optional_current_user(U, t, credentials)]
        current_user == get_optional_current_user(U, t, credentials)
    IN
    IF ById(U, user_id) = {}
    THEN Out(U, Answer(call, 404, <<"User not found">>))
    ELSE
    LET user == U[user_id]
        is_own_profile == current_user # 0 /\ current_user = user_id
        privacy == user.privacy_settings
        response_data ==
            [id |-> str(user_id), name |-> user.name,
             profile_photo |-> user.profile_photo, bio |-> user.bio,
             roles |-> user.roles, verified |-> user.verified,
             email |-> IF is_own_profile \/ ~dict_get(privacy, "hide_email")
                       THEN user.email ELSE NoneStr,
             phone |-> IF is_own_profile \/ ~dict_get(privacy, "hide_phone")
                       THEN user.phone ELSE NoneStr]
    IN
    Out(U, [Answer(call, 200, <<>>) EXCEPT !.body = {response_data}])

(* ------------------------- what callers present ----------------------- *)
TTL(type) ==
    CASE type = "access" -> access_token_expire_minutes
      [] type = "refresh" -> refresh_token_expire_days * MINUTES_PER_DAY
      [] OTHER -> RESET_TOKEN_MINUTES

EmailOf(U, id) == IF id \in UserIds /\ U[id].exists THEN U[id].email ELSE GhostEmail
RolesOf(U, id) == IF id \in UserIds /\ U[id].exists THEN U[id].roles ELSE <<"seeker">>

\* A token of the given purpose for UUID id as the service would sign it
\* (an access or refresh token names the user, a reset token the email).
Shaped(U, type, id, exp, key) ==
    jwt_encode(
        CASE type = "access" -> Claims(str(id), EmailOf(U, id), RolesOf(U, id), exp, type)
          [] type = "refresh" -> Claims(str(id), NoneStr, <<>>, exp, type)
          [] OTHER -> Claims(NoneStr, EmailOf(U, id), <<>>, exp, type),
        key)

TokenTypes == {"access", "refresh", "password_reset"}

\* Every token the properties quantify over at time t: the service's own
\* tokens, still valid (issued now, or at their last valid minute), expired,
\* signed with another key, with a missing or non-UUID subject, with no
\* type, and text that is no token.
Presented(U, t) ==
    UNION {{Shaped(U, ty, id, exp, key) :
                id \in UUIDs, exp \in {t - 1, t, t + TTL(ty)},
                key \in {jwt_secret_key, ForeignKey}} : ty \in TokenTypes}
    \cup {jwt_encode(Claims(sub, NoneStr, <<>>, t + TTL(ty), ty), jwt_secret_key) :
            sub \in {NoneStr, "not-a-uuid"}, ty \in {"access", "refresh"}}
    \cup {jwt_encode(Claims(str(id), NoneStr, <<>>, t + TTL("refresh"), NoneStr),
                     jwt_secret_key) : id \in UUIDs}
    \cup {Malformed}

\* Valid tokens of each purpose, one for each record key.
Valid(U, t, ty) == {Shaped(U, ty, id, t + TTL(ty), jwt_secret_key) : id \in UserIds}

Subject(sub, ty, t) ==
    jwt_encode(Claims(sub, NoneStr, <<>>, t + TTL(ty), ty), jwt_secret_key)

\* The refresh tokens the calls of the model are made with: the valid ones
\* and one for each way of being refused.
SentRefresh(U, t) ==
    Valid(U, t, "refresh")
    \cup {Shaped(U, "access", 1, t + TTL("access"), jwt_secret_key),
          Shaped(U, "password_reset", 1, t + TTL("password_reset"), jwt_secret_key),
          Shaped(U, "refresh", 3, t + TTL("refresh"), jwt_secret_key),
          Shaped(U, "refresh", 1, t - 1, jwt_secret_key),
          Shaped(U, "refresh", 1, t + TTL("refresh"), ForeignKey),
          Subject(NoneStr, "refresh", t),
          Subject("not-a-uuid", "refresh", t),
          Malformed}

\* The bearer tokens the calls of the model are made with.
SentBearer(U, t) ==
    Valid(U, t, "access")
    \cup {Shaped(U, "refresh", 1, t + TTL("refresh"), jwt_secret_key),
          Shaped(U, "password_reset", 1, t + TTL("password_reset"), jwt_secret_key),
          Shaped(U, "access", 1, t - 1, jwt_secret_key)}

\* The reset tokens the calls of the model are made with.
SentReset(U, t) ==
    Valid(U, t, "password_reset")
    \cup {Shaped(U, "password_reset", 3, t + TTL("password_reset"), jwt_secret_key),
          Shaped(U, "access", 1, t + TTL("access"), jwt_secret_key),
          Shaped(U, "refresh", 1, t + TTL("refresh"), jwt_secret_key),
          Shaped(U, "password_reset", 1, t - 1, jwt_secret_key)}

\* Login is attempted for Alice and for an email nobody holds.
LoginEmails == {Alice, GhostEmail}
\* What registration is called with.
RegisterInputs == {<<Alice, p>> : p \in Passwords} \cup {<<Bob, "Str0ng!Pass">>}

\* Requests served at the same time, each in a session of its own.
NumClients == 2
Clients == 1..NumClients

\* A request's session: where the handler stands (pc), the primary key and
\* the row it holds, the columns it has assigned (dirty), and the status it
\* answered last.
NoFlight == [pc |-> "idle", op |-> "none", id |-> 0, row |-> NoUser,
             dirty |-> {}, code |-> 0]

(* ------------------------------- actions ------------------------------ *)
Init ==
    /\ users = [i \in UserIds |-> NoUser]
    /\ prev = users
    /\ now = 0
    /\ last = NoCall
    /\ held = {}
    /\ flight = [c \in Clients |-> NoFlight]

\* Requests are served one at a time: a call starts once the response to the
\* previous one has been delivered.
Idle == last = NoCall

Apply(out) ==
    /\ Idle
    /\ users' = out.users
    /\ prev' = users
    /\ last' = out.resp
    /\ UNCHANGED <<now, held, flight>>

Deliver ==
    /\ ~Idle
    /\ last' = NoCall
    /\ prev' = users
    /\ UNCHANGED <<users, now, held, flight>>

\* The primary key uuid4 draws for a new record: a key no record has.  Which
\* key an account gets decides nothing, so each email has its own.
KeyFor == [e \in Emails |-> IF e = Alice THEN 1 ELSE 2]

Register ==
    \E in \in RegisterInputs :
        \E h \in HashesOf(in[2]) :
            Apply(register_user(users, in[1], NoneStr, "Alice A", in[2],
                                KeyFor[in[1]], h))

Login ==
    \E email \in LoginEmails, password \in Passwords :
        /\ \A i \in UserIds :
              login(users, now, email, password).users[i].exists =>
                 login(users, now, email, password).users[i].failed_login_attempts
                    <= MaxFailed
        /\ Apply(login(users, now, email, password))

Refresh ==
    \E token \in SentRefresh(users, now) :
        Apply(refresh_access_token(users, now, token))

Logout ==
    \E token \in SentBearer(users, now) : Apply(logout(users, now, token))

OptionalAuth ==
    \E credentials \in {{}} \cup {{x} : x \in SentBearer(users, now)} :
        Apply(Out(users, [Call("optional-auth") EXCEPT
                !.token = credentials,
                !.principal = get_optional_current_user(users, now, credentials)]))

RequestPasswordReset ==
    \E email \in Emails \cup {GhostEmail} :
        Apply(request_password_reset(users, now, email))

ConfirmPasswordReset ==
    \E token \in SentReset(users, now), new_password \in Passwords :
        \E h \in HashesOf(new_password) :
            Apply(confirm_password_reset(users, now, token, new_password, h))

ChangePassword ==
    \E token \in SentBearer(users, now), cur \in Passwords, new \in Passwords :
        \E h \in HashesOf(new) :
            Apply(change_password(users, now, token, cur, new, h))

\* Time passes.
Tick ==
    /\ Idle
    /\ now < MaxTicks * TickMinutes
    /\ now' = now + TickMinutes
    /\ UNCHANGED <<users, prev, last, held, flight>>

\* The store's owner (moderation, outside the core) sets an account's status.
StoreSetStatus ==
    \E id \in {KeyFor[Alice]}, s \in Statuses :
        /\ Idle
        /\ users[id].exists
        /\ users[id].status # s
        /\ users' = [users EXCEPT ![id].status = s]
        /\ prev' = users'
        /\ UNCHANGED <<now, last, held, flight>>

Next ==
    \/ Register
    \/ Login
    \/ Refresh
    \/ Logout
    \/ OptionalAuth
    \/ RequestPasswordReset
    \/ ConfirmPasswordReset
    \/ ChangePassword
    \/ Deliver
    \/ Tick
    \/ StoreSetStatus

Spec == Init /\ [][Next]_vars

(* ------------------------- a client's sessions ------------------------ *)
\* A second specification: one client registers, logs in, keeps the tokens
\* it is given and presents them again later, up to and past their expiry.
\* The clock stops at the instants where a lock or a token runs out.
SessionInstants ==
    {0, LOCK_MINUTES,
     access_token_expire_minutes, access_token_expire_minutes + 1}

\* The tokens in the body of an answer.
TokensOf(resp) == resp.access \cup resp.refresh \cup resp.reset

\* The client keeps tokens of the answer it was given.
Keep ==
    \E kept \in SUBSET TokensOf(last) :
        /\ ~Idle
        /\ kept # {}
        /\ Cardinality(held \cup kept) <= MaxHeld
        /\ held' = held \cup kept
        /\ last' = NoCall
        /\ prev' = users
        /\ UNCHANGED <<users, now, flight>>

Advance ==
    \E t \in SessionInstants :
        /\ Idle
        /\ t > now
        /\ now' = t
        /\ UNCHANGED <<users, prev, last, held, flight>>

SessionRegister ==
    \E h \in HashesOf("Str0ng!Pass") :
        Apply(register_user(users, Alice, NoneStr, "Alice A", "Str0ng!Pass",
                            KeyFor[Alice], h))

HeldRefresh ==
    \E token \in held : Apply(refresh_access_token(users, now, token))

HeldLogout ==
    \E token \in held : Apply(logout(users, now, token))

HeldChangePassword ==
    \E token \in held, cur \in Passwords, new \in Passwords :
        \E h \in HashesOf(new) :
            Apply(change_password(users, now, token, cur, new, h))

HeldConfirmReset ==
    \E token \in held, new_password \in Passwords :
        \E h \in HashesOf(new_password) :
            Apply(confirm_password_reset(users, now, token, new_password, h))

SessionNext ==
    \/ SessionRegister
    \/ Login
    \/ HeldRefresh
    \/ HeldLogout
    \/ HeldChangePassword
    \/ RequestPasswordReset
    \/ HeldConfirmReset
    \/ Keep
    \/ Deliver
    \/ Advance

Sessions == Init /\ [][SessionNext]_vars

(* -------------------------- logins across a lock ---------------------- *)
\* One account is logged into with right and wrong passwords while the
\* clock passes the end of its locks; failures are explored up to two past
\* MaxFailed.
RelockLogin ==
    /\ Idle
    /\ \E password \in Passwords :
          /\ \A i \in UserIds :
                login(users, now, Alice, password).users[i].exists =>
                   login(users, now, Alice, password).users[i].failed_login_attempts
                      <= MaxFailed + 2
          /\ Apply(login(users, now, Alice, password))

RelockNext == SessionRegister \/ RelockLogin \/ Advance \/ Deliver

Relock == Init /\ [][RelockNext]_vars

(* ------------------------- registration requests ---------------------- *)
\* What the registrations of this specification submit: passwords that are
\* strong, at the length limits, too short, too long or missing one class of
\* character; phones that match the pattern, one that does not, or none;
\* a name or the empty text.
SignupPasswords ==
    {"Str0ng!Pass", "Aa1!aaaa", LongPassword, TooLongPassword, "Aa1!aaa",
     "str0ng!pass", "STR0NG!PASS", "Strong!Pass", "Str0ngPass", "Str0ng_Pass"}
SignupPhones == {NoneStr, "+919876543210", "9876543211", "0123456789"}
SignupNames == {"Alice A", ""}

\* The primary key of a new row is one no row has (uuid4).
FreshIds(U) ==
    IF Registered(U) = UserIds THEN UserIds ELSE UserIds \ Registered(U)

SignupRegister ==
    /\ Idle
    /\ \E email \in Emails, phone \in SignupPhones, name \in SignupNames,
          password \in SignupPasswords :
           \E h \in HashesOf(password), new_id \in FreshIds(users) :
               /\ Registered(users) = UserIds =>
                     register_user(users, email, phone, name, password,
                                   new_id, h).resp.code # 201
               /\ Apply(register_user(users, email, phone, name, password,
                                      new_id, h))

SignupNext == SignupRegister \/ Deliver

Signup == Init /\ [][SignupNext]_vars

(* --------------------------- profile requests ------------------------- *)
\* The first account reads and updates profiles; the second is there to be
\* read, to read, to hold a phone number and to try the profiles of others.
HideEmail == [hide_email |-> "true", hide_phone |-> "unset"]
HidePhone == [hide_email |-> "false", hide_phone |-> "true"]
HideBoth == [hide_email |-> "true", hide_phone |-> "true"]
ProfilePayloads ==
    {EmptyPayload,
     [EmptyPayload EXCEPT !.name = {"Bob B"}],
     [EmptyPayload EXCEPT !.name = {""}],
     [EmptyPayload EXCEPT !.name = {NoneStr}],
     [EmptyPayload EXCEPT !.phone = {"9876543211"}],
     [EmptyPayload EXCEPT !.phone = {"0123456789"}],
     [EmptyPayload EXCEPT !.phone = {NoneStr}, !.bio = {"Hello"}],
     [EmptyPayload EXCEPT !.profile_photo = {"photo.png"}],
     [EmptyPayload EXCEPT !.privacy_settings = {HideEmail}],
     [EmptyPayload EXCEPT !.privacy_settings = {HidePhone}],
     [EmptyPayload EXCEPT !.privacy_settings = {HideBoth}, !.name = {"Bob B"}],
     [EmptyPayload EXCEPT !.roles = {<<"seeker", "admin">>}, !.email = {Bob},
                          !.bio = {"Hello"}]}
ProfilePhones == [e \in Emails |-> IF e = Alice THEN "+919876543210" ELSE "9876543211"]
Methods == {"PUT", "PATCH"}

ProfileRegister ==
    /\ Idle
    /\ \E email \in Emails :
          \E h \in HashesOf("Str0ng!Pass") :
              Apply(register_user(users, email, ProfilePhones[email], "Alice A",
                                  "Str0ng!Pass", KeyFor[email], h))

UpdateProfile ==
    /\ Idle
    /\ \E token \in SentBearer(users, now), user_id \in UUIDs,
          payload \in ProfilePayloads, method \in Methods :
           /\ token.claims.sub = str(KeyFor[Bob]) => user_id # KeyFor[Bob]
           /\ Apply(IF method = "PUT"
                    THEN update_user_profile(users, now, token, user_id, payload)
                    ELSE partial_update_profile(users, now, token, user_id,
                                                payload))

ViewProfile ==
    /\ Idle
    /\ \E credentials \in {{}} \cup {{x} : x \in SentBearer(users, now)},
          user_id \in UUIDs :
           Apply(get_user_profile(users, now, credentials, user_id))

ProfileNext ==
    \/ ProfileRegister
    \/ UpdateProfile
    \/ ViewProfile
    \/ StoreSetStatus
    \/ Deliver

Profile == Init /\ [][ProfileNext]_vars

(* ---------------------------- role requests --------------------------- *)
\* Two registered users log in and call the role operations with the access
\* token they were given; the admin role reaches the first account from the
\* store, as no operation grants it while nobody is admin.
RoleInputs == {"seeker", "admin", "superuser"}
AllowedLists == {<<>>, <<"admin">>, <<"owner", "agent">>, <<"seeker", "admin">>}

RolesRegister ==
    /\ Idle
    /\ \E email \in Emails :
          \E h \in HashesOf("Str0ng!Pass") :
              Apply(register_user(users, email, NoneStr, "Alice A", "Str0ng!Pass",
                                  KeyFor[email], h))

\* A client logs in when it holds no token.
RolesLogin ==
    /\ Idle
    /\ \E email \in Emails :
          /\ \A token \in held : token.claims.email # email
          /\ Apply(login(users, now, email, "Str0ng!Pass"))

\* The client keeps the access token of the answer.
RolesKeep ==
    /\ ~Idle
    /\ last.access # {}
    /\ Cardinality(held \cup last.access) <= MaxHeld
    /\ held' = held \cup last.access
    /\ last' = NoCall
    /\ prev' = users
    /\ UNCHANGED <<users, now, flight>>

\* The store is seeded with an admin.
StoreGrantAdmin ==
    \E id \in {KeyFor[Alice]} :
        /\ Idle
        /\ users[id].exists
        /\ "admin" \notin Range(users[id].roles)
        /\ users' = [users EXCEPT ![id].roles = Append(users[id].roles, "admin")]
        /\ prev' = users'
        /\ UNCHANGED <<now, last, held, flight>>

AddRole ==
    /\ Idle
    /\ \E token \in held, user_id \in UUIDs, role \in RoleInputs,
          tracked \in BOOLEAN :
           Apply(add_user_role(users, now, token, user_id, role, tracked))

RemoveRole ==
    /\ Idle
    /\ \E token \in held, user_id \in UUIDs, role \in RoleInputs,
          tracked \in BOOLEAN :
           Apply(remove_user_role(users, now, token, user_id, role, tracked))

GuardedCall ==
    /\ Idle
    /\ \E token \in held, allowed_roles \in AllowedLists :
           Apply(require_roles(users, now, token, allowed_roles))

RolesNext ==
    \/ RolesRegister
    \/ RolesLogin
    \/ RolesKeep
    \/ StoreGrantAdmin
    \/ AddRole
    \/ RemoveRole
    \/ GuardedCall
    \/ Deliver

Roles == Init /\ [][RolesNext]_vars

(* ----------------------------- all requests -------------------------- *)
\* Every operation of the API, called by two users who know their password
\* and present the access tokens they were given; refresh and reset tokens
\* are the ones the service would issue.
EscalationPayloads ==
    {[EmptyPayload EXCEPT !.roles = {<<"seeker", "admin">>}, !.name = {"Alice A"}],
     [EmptyPayload EXCEPT !.roles = {<<"admin">>}, !.email = {Alice}]}

ApiLogin ==
    /\ Idle
    /\ \E email \in Emails, password \in Passwords :
          /\ \A token \in held : token.claims.email # email
          /\ \A i \in ByEmail(users, email) :
                verify_password(password, users[i].password_hash)
          /\ Apply(login(users, now, email, password))

ApiRefresh ==
    /\ Idle
    /\ \E token \in Valid(users, now, "refresh") :
          Apply(refresh_access_token(users, now, token))

ApiLogout ==
    /\ Idle
    /\ \E token \in held : Apply(logout(users, now, token))

ApiConfirmReset ==
    /\ Idle
    /\ \E token \in Valid(users, now, "password_reset"),
          new_password \in Passwords :
           \E h \in HashesOf(new_password) :
               /\ token.claims.email = Alice
               /\ Apply(confirm_password_reset(users, now, token, new_password, h))

ApiChangePassword ==
    /\ Idle
    /\ \E token \in held, cur \in Passwords, new \in Passwords :
           \E h \in HashesOf(new) :
               /\ token.claims.email = Alice
               /\ Apply(change_password(users, now, token, cur, new, h))

ApiUpdateProfile ==
    /\ Idle
    /\ \E token \in held, user_id \in UUIDs, payload \in EscalationPayloads :
           Apply(update_user_profile(users, now, token, user_id, payload))

ApiNext ==
    \/ RolesRegister
    \/ ApiLogin
    \/ RolesKeep
    \/ ApiRefresh
    \/ ApiLogout
    \/ RequestPasswordReset
    \/ ApiConfirmReset
    \/ ApiChangePassword
    \/ ApiUpdateProfile
    \/ AddRole
    \/ RemoveRole
    \/ StoreGrantAdmin
    \/ Deliver

Api == Init /\ [][ApiNext]_vars

(* ------------------------ requests that interleave --------------------- *)
\* The handlers of login and register_user, one awaited statement at a
\* time, for requests that are served in sessions of their own.
WrongPassword == "N3w!Passw"

\* Variant: the flush writes every column of the row the session holds.
flush_whole_row(U, id, row, dirty) == [U EXCEPT ![id] = row]

\* db.commit() on a loaded row: the UPDATE sets the columns the handler
\* assigned, the others keep what the table holds.
flush(U, id, row, dirty) ==
    [U EXCEPT ![id] = [col \in DOMAIN row |->
                          IF col \in dirty THEN row[col] ELSE U[id][col]]]

\* The unique index on email (models/user.py lines 22-24) and on phone
\* (lines 25-27): the INSERT of a row whose email or phone a row already
\* has raises IntegrityError.
unique_violation(U, row) ==
    \/ ByEmail(U, row.email) # {}
    \/ row.phone # NoneStr /\ ByPhone(U, row.phone) # {}

Landed(c, code) == [NoFlight EXCEPT !.op = flight[c].op, !.code = code]

\* auth.py lines 41-58: the row is selected, the lock looked at, the
\* password found wrong.
LoginSelect(c) ==
    /\ flight[c].pc = "idle"
    /\ ByEmail(users, Alice) # {}
    /\ LET id == CHOOSE i \in ByEmail(users, Alice) : TRUE
           user == users[id]
       IN
       /\ ~verify_password(WrongPassword, user.password_hash)
       /\ flight' = [flight EXCEPT ![c] =
              IF check_lock(user, now)
              THEN [NoFlight EXCEPT !.op = "login", !.code = 403]
              ELSE [NoFlight EXCEPT !.op = "login", !.pc = "selected",
                                    !.id = id, !.row = user]]
    /\ UNCHANGED <<users, prev, now, last, held>>

\* auth.py line 61: user.failed_login_attempts += 1.
LoginIncrement(c) ==
    /\ flight[c].op = "login" /\ flight[c].pc = "selected"
    /\ flight' = [flight EXCEPT
           ![c].row.failed_login_attempts = @ + 1,
           ![c].dirty = @ \cup {"failed_login_attempts"},
           ![c].pc = "incremented"]
    /\ UNCHANGED <<users, prev, now, last, held>>

\* auth.py lines 64-65: at the threshold locked_until is assigned.
LoginCompare(c) ==
    /\ flight[c].op = "login" /\ flight[c].pc = "incremented"
    /\ flight' = [flight EXCEPT ![c] =
           IF @.row.failed_login_attempts >= LOCK_THRESHOLD
           THEN [@ EXCEPT !.row.locked_until = now + LOCK_MINUTES,
                          !.dirty = @ \cup {"locked_until"},
                          !.pc = "compared"]
           ELSE [@ EXCEPT !.pc = "compared"]]
    /\ UNCHANGED <<users, prev, now, last, held>>

\* auth.py lines 66-76: commit, then 403 when the lock was set, else 401.
LoginCommit(c) ==
    /\ flight[c].op = "login" /\ flight[c].pc = "compared"
    /\ users' = flush(users, flight[c].id, flight[c].row, flight[c].dirty)
    /\ flight' = [flight EXCEPT ![c] =
           Landed(c, IF "locked_until" \in flight[c].dirty THEN 403 ELSE 401)]
    /\ UNCHANGED <<prev, now, last, held>>

\* users.py lines 38-66: both existence checks, the hash and the new row,
\* as register_user answers on the table the session sees.
RegisterSelect(c) ==
    /\ flight[c].pc = "idle"
    /\ \E new_id \in UserIds \ (Registered(users) \cup {flight[d].id : d \in Clients}) :
       \E h \in HashesOf("Str0ng!Pass") :
           LET out == register_user(users, Alice, NoneStr, "Alice A",
                                    "Str0ng!Pass", new_id, h)
           IN flight' = [flight EXCEPT ![c] =
                  IF out.resp.code # 201
                  THEN [NoFlight EXCEPT !.op = "register", !.code = out.resp.code]
                  ELSE [NoFlight EXCEPT !.op = "register", !.pc = "checked",
                                        !.id = new_id,
                                        !.row = out.users[new_id]]]
    /\ UNCHANGED <<users, prev, now, last, held>>

\* users.py lines 68-71: db.add and db.commit.  The handler catches
\* nothing and main.py installs no handler for IntegrityError, so a
\* violated index is answered 500 and the row is not stored.
RegisterInsert(c) ==
    /\ flight[c].op = "register" /\ flight[c].pc = "checked"
    /\ IF unique_violation(users, flight[c].row)
       THEN /\ users' = users
            /\ flight' = [flight EXCEPT ![c] = Landed(c, 500)]
       ELSE /\ users' = [users EXCEPT ![flight[c].id] = flight[c].row]
            /\ flight' = [flight EXCEPT ![c] = Landed(c, 201)]
    /\ UNCHANGED <<prev, now, last, held>>

LoginStep(c) ==
    LoginSelect(c) \/ LoginIncrement(c) \/ LoginCompare(c) \/ LoginCommit(c)

RaceNext ==
    \E c \in Clients :
        \/ RegisterSelect(c)
        \/ RegisterInsert(c)
        \/ LoginSelect(c)
        \/ LoginIncrement(c)
        \/ LoginCompare(c)
        \/ LoginCommit(c)

Race == Init /\ [][RaceNext]_vars

\* Every request that is being served is served to its end, and the clients
\* keep sending wrong passwords.
RaceFair == Race /\ \A c \in Clients : WF_vars(LoginStep(c))


(* ======================= properties of the auth core =================== *)
\* The login call being answered, and the account it names (at most one).
IsLogin == last.op = "login"
Named == ByEmail(prev, last.email)
Accounts == Registered(users)
Matches(U, id, password) == U[id].password_hash.digest[2] = password
LockedAt(user, t) == user.locked_until # None /\ user.locked_until > t
AccountLocked(resp) ==
    resp.code = 403 /\ resp.detail \in {LockedTryLater, LockedFor15Minutes}
NoTokens(resp) == resp.access = {} /\ resp.refresh = {} /\ resp.reset = {}
Others(id) == UserIds \ {id}
Untouched(ids) == \A j \in ids : users[j] = prev[j]

\* n login calls for one email with one password, gap minutes apart, the
\* first at time t: the status codes in order and the table they leave.
RECURSIVE Attempts(_, _, _, _, _, _)
Attempts(U, t, gap, email, password, n) ==
    IF n = 0 THEN [codes |-> <<>>, users |-> U, at |-> t]
    ELSE LET out == login(U, t, email, password)
             rest == Attempts(out.users, t + gap, gap, email, password, n - 1)
         IN [codes |-> <<out.resp.code>> \o rest.codes, users |-> rest.users,
             at |-> IF n = 1 THEN t ELSE rest.at]

\* C1: from an account with failure counter 0 and no lock, five consecutive
\* wrong-password logins answer 401, 401, 401, 401, 403; the fifth sets
\* locked_until to its own time plus 15 minutes, and every login in the 15
\* minutes after it, with any password, answers 403.  The same holds step
\* by step of the calls the system serves: a wrong password on an unlocked
\* account answers 401 below the threshold and 403 with the lock set at it.
C1_FiveFailuresLock ==
    /\ Idle =>
          \A id \in Accounts, p \in Passwords, gap \in {0, 1} :
              LET u == users[id]
                  five == Attempts(users, now, gap, u.email, p, 5)
              IN (u.failed_login_attempts = 0 /\ u.locked_until = None
                    /\ ~Matches(users, id, p))
                 => /\ five.codes = <<401, 401, 401, 401, 403>>
                    /\ five.users[id].locked_until = five.at + 15
                    /\ \A d \in 0 .. 14, q \in Passwords :
                          LET again == login(five.users, five.at + d, u.email, q) IN
                          AccountLocked(again.resp) /\ NoTokens(again.resp)
    /\ IsLogin =>
          \A id \in Named :
              (~LockedAt(prev[id], now) /\ ~Matches(prev, id, last.password))
              => LET n == prev[id].failed_login_attempts + 1 IN
                 /\ users[id].failed_login_attempts = n
                 /\ n < 5 => last.code = 401 /\ users[id].locked_until = prev[id].locked_until
                 /\ n = 5 => last.code = 403 /\ users[id].locked_until = now + 15

\* The fifth wrong password in a row has just locked an account.
C1_Witness ==
    /\ IsLogin
    /\ last.code = 403
    /\ \E id \in Named :
          /\ prev[id].failed_login_attempts = 4
          /\ prev[id].locked_until = None
          /\ users[id].failed_login_attempts = 5
          /\ users[id].locked_until = now + 15

\* The instants a lock is probed at: the current one and those around the
\* lock's expiry.
Probes(user) ==
    {now} \cup (IF user.locked_until = None THEN {}
                ELSE {user.locked_until - 1, user.locked_until, user.locked_until + 1})

C3_SuccessResets ==
    IsLogin /\ (last.access # {} \/ last.refresh # {} \/ last.code = 200) =>
        /\ Named # {}
        /\ \A id \in Named :
              /\ users[id].failed_login_attempts = 0
              /\ users[id].locked_until = None
              /\ users[id].last_login_at = now
              /\ users[id] = [prev[id] EXCEPT !.failed_login_attempts = 0,
                                              !.locked_until = None,
                                              !.last_login_at = now]
              /\ Untouched(Others(id))

\* A login succeeds on an account that had failures counted and an expired
\* lock.
C3_Witness ==
    /\ IsLogin
    /\ last.code = 200
    /\ \E id \in Named :
          /\ prev[id].failed_login_attempts > 0
          /\ prev[id].locked_until # None
          /\ users[id].failed_login_attempts = 0
          /\ users[id].locked_until = None

\* C4 as stated: once locked_until is in the future no operation clears or
\* shortens it before that time has passed (a successful login cannot happen
\* before then, so nothing ends the lock early).
C4_NoEarlyUnlock ==
    \A id \in Registered(prev) :
        LockedAt(prev[id], now) =>
            /\ users[id].locked_until # None
            /\ users[id].locked_until >= prev[id].locked_until

\* The email a password-reset-confirm call's token carries.
ResetEmails == {tok.claims.email : tok \in last.token}

\* C4 as amended: while locked_until is in the future, the only call that
\* changes it is a successful password-reset-confirm for the account's email,
\* which clears it together with the counter; login, refresh, logout,
\* change-password, password-reset-request and registration leave it as it
\* is, so apart from a password reset the lock ends only by expiring.
C4_LockStickyButForReset ==
    \A id \in Registered(prev) :
        (LockedAt(prev[id], now) /\ users[id].locked_until # prev[id].locked_until)
        => /\ last.op = "password-reset-confirm"
           /\ last.code = 200
           /\ prev[id].email \in ResetEmails
           /\ users[id].locked_until = None
           /\ users[id].failed_login_attempts = 0

\* A password reset has just ended a lock that had not expired.
C4_Witness ==
    /\ last.op = "password-reset-confirm"
    /\ \E id \in Registered(prev) :
          /\ LockedAt(prev[id], now)
          /\ prev[id].failed_login_attempts = 5
          /\ users[id].locked_until = None

\* The record a token's subject names, if any.
SubjectOf(U, tok) == {i \in UserIds : U[i].exists /\ UUIDText[i] = tok.claims.sub}

\* C5: only an active account authenticates.  A login or refresh that
\* returns tokens, and a bearer resolution that returns a principal (required
\* or optional), is for an account whose status is active; for a suspended
\* or banned account none of them returns tokens or a principal, whatever
\* the token or password presented.
C5_OnlyActiveAuthenticates ==
    /\ last.op \in {"login", "refresh"} =>
          \A tok \in last.access \cup last.refresh :
              /\ SubjectOf(prev, tok) # {}
              /\ \A i \in SubjectOf(prev, tok) :
                    prev[i].status = "active" /\ users[i].status = "active"
    /\ last.principal # 0 /\ last.op # "register" =>
          prev[last.principal].exists /\ prev[last.principal].status = "active"
    /\ Idle =>
          \A id \in Accounts :
              users[id].status # "active" =>
                  /\ \A p \in Passwords :
                        NoTokens(login(users, now, users[id].email, p).resp)
                  /\ \A tok \in Presented(users, now) :
                        /\ tok.claims.sub = UUIDText[id] =>
                              /\ NoTokens(refresh_access_token(users, now, tok).resp)
                              /\ ~get_current_user(users, now, tok).ok
                              /\ get_optional_current_user(users, now, {tok}) = 0
                        /\ get_current_user(users, now, tok).id # id
                        /\ get_optional_current_user(users, now, {tok}) # id

\* A suspended or banned account presents its own valid refresh token and is
\* refused.
C5_Witness ==
    /\ last.op = "refresh"
    /\ last.code = 401
    /\ NoTokens(last)
    /\ \E tok \in last.token :
          /\ tok.key = jwt_secret_key /\ tok.claims.type = "refresh"
          /\ tok.claims.exp >= now
          /\ \E i \in SubjectOf(prev, tok) : prev[i].status \in {"suspended", "banned"}

\* C6 as stated: a login that fails on its credentials (no account has the
\* email, or the password is wrong) is answered 401 "Incorrect email or
\* password", so the answer does not tell a registered email from an
\* unregistered one.
C6_Indistinguishable ==
    (IsLogin /\ \A id \in Named : ~Matches(prev, id, last.password)) =>
        last.code = 401 /\ last.detail = <<"Incorrect email or password">>

\* What a caller sees of an answer.
Seen(resp) == <<resp.code, resp.detail, resp.access, resp.refresh, resp.reset>>

\* C6 as amended: a login for an email with no account is answered 401
\* "Incorrect email or password", and so is a wrong password on an existing
\* unlocked account while the failure leaves its counter below 5: up to
\* there the two answers are the same.  The fifth consecutive failure and
\* every login on the locked account answer AccountLocked (403), which an
\* unregistered email never gets.
C6_SameErrorBelowThreshold ==
    /\ IsLogin /\ Named = {} =>
          /\ last.code = 401
          /\ last.detail = <<"Incorrect email or password">>
          /\ NoTokens(last)
          /\ users = prev
    /\ IsLogin =>
          \A id \in Named :
              (~LockedAt(prev[id], now) /\ ~Matches(prev, id, last.password)
                 /\ prev[id].failed_login_attempts + 1 < 5)
              => /\ last.code = 401
                 /\ last.detail = <<"Incorrect email or password">>
                 /\ NoTokens(last)
    /\ Idle =>
          \A id \in Accounts, p \in Passwords :
              (~LockedAt(users[id], now) /\ ~Matches(users, id, p)
                 /\ users[id].failed_login_attempts + 1 < 5)
              => Seen(login(users, now, users[id].email, p).resp)
                    = Seen(login(users, now, GhostEmail, p).resp)

\* A login for an email nobody holds is refused while an account exists.
C6_Witness ==
    /\ IsLogin
    /\ Named = {}
    /\ last.code = 401
    /\ Accounts # {}

\* The login call's account has the password right, is not locked and is
\* active.
FullSuccess ==
    \E id \in Named :
        /\ Matches(prev, id, last.password)
        /\ ~LockedAt(prev[id], now)
        /\ prev[id].status = "active"

\* C7: a login with the correct password on an existing, unlocked, active
\* account returns exactly one access token (sub the user's id, email and
\* roles those of the record, type access) and exactly one refresh token
\* (sub the user's id, type refresh); every other login returns no token.
C7_TokensOnFullSuccessOnly ==
    IsLogin =>
        /\ FullSuccess =>
              /\ last.code = 200
              /\ Cardinality(last.access) = 1
              /\ Cardinality(last.refresh) = 1
              /\ last.reset = {}
              /\ \A id \in Named :
                    /\ \A tok \in last.access :
                          /\ tok.claims.sub = UUIDText[id]
                          /\ tok.claims.email = prev[id].email
                          /\ tok.claims.roles = prev[id].roles
                          /\ tok.claims.type = "access"
                          /\ tok.key = jwt_secret_key
                    /\ \A tok \in last.refresh :
                          /\ tok.claims.sub = UUIDText[id]
                          /\ tok.claims.type = "refresh"
                          /\ tok.key = jwt_secret_key
        /\ ~FullSuccess => NoTokens(last) /\ last.code # 200

\* A login has just succeeded while another account exists: the tokens name
\* the account that logged in.
C7_Witness ==
    /\ IsLogin
    /\ FullSuccess
    /\ last.code = 200
    /\ \E tok \in last.access : tok.claims.email = Alice /\ tok.claims.roles = <<"seeker">>
    /\ users[KeyFor[Bob]].exists

\* A token the service's key signed that has not expired at time t.
Decodes(tok, t) == tok.wellformed /\ tok.key = "service-secret" /\ tok.claims.exp >= t

\* The ways C8 lists for a refresh token to be refused.
Refused(U, tok, t) ==
    \/ ~Decodes(tok, t)
    \/ tok.claims.type # "refresh"
    \/ tok.claims.sub = NoneStr
    \/ SubjectOf(U, tok) = {}
    \/ \E i \in SubjectOf(U, tok) : U[i].status # "active"

\* C8: refresh fails with InvalidToken (401), issues no tokens and leaves
\* every user record unchanged whenever the token fails to decode, has a type
\* other than refresh, has a missing or unparsable subject, or names a user
\* that does not exist or is not active; no such input fails in another way.
C8_RefreshRefusesWith401 ==
    last.op = "refresh" =>
        \A tok \in last.token :
            Refused(prev, tok, now) =>
                last.code = 401 /\ NoTokens(last) /\ users = prev

\* C9: refresh with a valid, unexpired refresh token of an existing active
\* user returns an access token carrying the user's id and the email and
\* roles of the record as it is at the time of the call, expiring 30 minutes
\* later, and a refresh token for the same id; the user table is unchanged
\* (counter, lock, last_login_at, hash and roles included).
C9_RefreshIssuesFromRecord ==
    last.op = "refresh" =>
        \A tok \in last.token :
            ~Refused(prev, tok, now) =>
                /\ last.code = 200
                /\ users = prev
                /\ \E id \in SubjectOf(prev, tok) :
                      /\ last.access =
                            {[wellformed |-> TRUE, key |-> "service-secret",
                              claims |-> [sub |-> tok.claims.sub,
                                          email |-> users[id].email,
                                          roles |-> users[id].roles,
                                          exp |-> now + 30,
                                          type |-> "access"]]}
                      /\ Cardinality(last.refresh) = 1
                      /\ \A r \in last.refresh :
                            /\ r.key = "service-secret"
                            /\ r.claims.sub = tok.claims.sub
                            /\ r.claims.type = "refresh"
                            /\ r.claims.exp = now + 7 * 1440

\* A refresh succeeds for an account with failures counted and a login on
\* record, while another account exists.
C9_Witness ==
    /\ last.op = "refresh"
    /\ last.code = 200
    /\ \E tok \in last.token :
          \E id \in SubjectOf(prev, tok) :
              /\ users[id].failed_login_attempts > 0
              /\ users[id].last_login_at # None
              /\ \E j \in Others(id) : users[j].exists

\* C10: a token is accepted only for the purpose it was issued for.  Of the
\* tokens that decode, refresh refuses those of type access or password_reset
\* (401, no tokens), the bearer dependencies refuse those of type refresh or
\* password_reset (401, resp. no principal), and password-reset-confirm
\* refuses those of type access or refresh (400); none of these calls
\* changes a record.
C10_PurposeBound ==
    /\ Idle =>
          \A tok \in Presented(users, now) :
              Decodes(tok, now) =>
                  /\ decode_token(tok, now).ok
                  /\ decode_token(tok, now).payload.type = tok.claims.type
                  /\ tok.claims.type \in {"access", "password_reset"} =>
                        LET out == refresh_access_token(users, now, tok) IN
                        out.resp.code = 401 /\ NoTokens(out.resp) /\ out.users = users
                  /\ tok.claims.type \in {"refresh", "password_reset"} =>
                        /\ ~get_current_user(users, now, tok).ok
                        /\ get_current_user(users, now, tok).code = 401
                        /\ get_optional_current_user(users, now, {tok}) = 0
                  /\ tok.claims.type \in {"access", "refresh"} =>
                        \A p \in Passwords : \A h \in HashesOf(p) :
                            LET out == confirm_password_reset(users, now, tok, p, h) IN
                            out.resp.code = 400 /\ out.users = users
    /\ \A tok \in last.token :
          Decodes(tok, now) =>
              /\ (last.op = "refresh" /\ tok.claims.type # "refresh") =>
                    last.code = 401 /\ NoTokens(last) /\ users = prev
              /\ (last.op \in {"logout", "change-password", "optional-auth"}
                    /\ tok.claims.type # "access") =>
                    /\ last.principal = 0
                    /\ last.op # "optional-auth" => last.code = 401
                    /\ users = prev
              /\ (last.op = "password-reset-confirm"
                    /\ tok.claims.type # "password_reset") =>
                    last.code = 400 /\ users = prev

\* A valid access token of an existing account is presented to
\* password-reset-confirm and refused.
C10_Witness ==
    /\ last.op = "password-reset-confirm"
    /\ last.code = 400
    /\ \E tok \in last.token :
          /\ Decodes(tok, now)
          /\ tok.claims.type = "access"
          /\ ByEmail(prev, tok.claims.email) # {}

(* ===================== properties of token lifetimes =================== *)
\* The instants after a token's expiry it is probed at.
AfterExpiry(tok) == {tok.claims.exp + 1, tok.claims.exp + 2, tok.claims.exp + 1440}

\* Both decoders fail on the token at time t and yield no payload.
NoPayload(tok, t) ==
    /\ ~decode_token(tok, t).ok
    /\ decode_token(tok, t).payload = NoClaims
    /\ decode_password_reset_token(tok, t) = "None"

\* The call being answered was refused: no principal, no token, no change.
CallRefused ==
    /\ last.code \in {400, 401}
    /\ last.principal = 0
    /\ NoTokens(last)
    /\ users = prev

TokenCalls == {"refresh", "logout", "change-password", "password-reset-confirm"}

\* C11: decoding fails, with no payload, for a token signed with a secret
\* other than the service's and for any token at every time after its
\* expiry; the expiry of a token the service issues is its issuance time
\* plus 30 minutes (access), 7 days (refresh) or 1 hour (password reset), so
\* it decodes up to that instant and no longer.  A call made with such a
\* token is refused.
C11_DecodeFailsOnKeyAndExpiry ==
    /\ Idle =>
          \A tok \in Presented(users, now) \cup held :
              /\ tok.key # "service-secret" =>
                    \A t \in {0, now, tok.claims.exp} \cup AfterExpiry(tok) :
                        NoPayload(tok, t)
              /\ \A t \in AfterExpiry(tok) : NoPayload(tok, t)
    /\ Idle =>
          \A id \in UserIds :
              LET a == create_access_token(id, EmailOf(users, id), RolesOf(users, id), now)
                  r == create_refresh_token(id, now)
                  p == create_password_reset_token(EmailOf(users, id), now)
              IN /\ a.claims.exp = now + 30
                 /\ r.claims.exp = now + 7 * 24 * 60
                 /\ p.claims.exp = now + 60
                 /\ decode_token(a, now + 30).ok /\ NoPayload(a, now + 31)
                 /\ decode_token(r, now + 10080).ok /\ NoPayload(r, now + 10081)
                 /\ decode_password_reset_token(p, now + 60) = EmailOf(users, id)
                 /\ NoPayload(p, now + 61)
    /\ \A tok \in last.access : tok.claims.exp = now + 30
    /\ \A tok \in last.refresh : tok.claims.exp = now + 10080
    /\ \A tok \in last.reset : tok.claims.exp = now + 60
    /\ last.op \in TokenCalls =>
          \A tok \in last.token :
              (tok.key # "service-secret" \/ tok.claims.exp < now) => CallRefused

\* An access token the service issued at time 0 is presented one minute
\* after its expiry by the client that kept it, and refused.
C11_Witness ==
    /\ last.op = "logout"
    /\ last.code = 401
    /\ now = 31
    /\ \E tok \in last.token \cap held :
          /\ tok.key = "service-secret"
          /\ tok.claims.type = "access"
          /\ tok.claims.exp = 30
          /\ \E i \in SubjectOf(users, tok) : users[i].status = "active"

\* The account a token names exists and is active.
OwnerActive(U, tok) ==
    SubjectOf(U, tok) # {} /\ \A i \in SubjectOf(U, tok) : U[i].status = "active"

\* The token, presented at time t to the table U, does what it was issued
\* for: an access token resolves to the account it names, a refresh token
\* is exchanged for a pair.
Honoured(U, tok, t) ==
    /\ tok.claims.type = "access" =>
          /\ get_current_user(U, t, tok).ok
          /\ get_current_user(U, t, tok).id \in SubjectOf(U, tok)
          /\ get_optional_current_user(U, t, {tok}) \in SubjectOf(U, tok)
    /\ tok.claims.type = "refresh" =>
          LET out == refresh_access_token(U, t, tok) IN
          /\ out.resp.code = 200
          /\ out.resp.access # {} /\ out.resp.refresh # {}

\* C12: tokens are invalidated by expiry alone.  In every state the calls
\* lead to (logins that fail, lockout, logout, change-password,
\* password-reset-confirm, in any order), every token the client has kept
\* that has not expired and names an existing active account is honoured,
\* now and up to the last instant before its expiry; a call made with such
\* a token resolves to the account it names (access) or is answered with a
\* pair (refresh).
C12_ValidUntilExpiry ==
    /\ Idle =>
          \A tok \in held :
              (Decodes(tok, now) /\ OwnerActive(users, tok)) =>
                  Honoured(users, tok, now) /\ Honoured(users, tok, tok.claims.exp)
    /\ \A tok \in last.token :
          (Decodes(tok, now) /\ OwnerActive(prev, tok)) =>
              /\ (last.op \in {"logout", "change-password"}
                    /\ tok.claims.type = "access")
                    => /\ last.principal \in SubjectOf(prev, tok)
                       /\ last.op = "logout" => last.code = 200
              /\ (last.op = "refresh" /\ tok.claims.type = "refresh")
                    => last.code = 200 /\ last.access # {}

\* An access token issued at time 0 is honoured at a later instant, after
\* the password was changed and while the account is locked by five failed
\* logins.
C12_Witness ==
    /\ last.op = "logout"
    /\ last.code = 200
    /\ now > 0
    /\ \E tok \in last.token \cap held :
          /\ tok.claims.type = "access"
          /\ tok.claims.exp = 30
          /\ \E id \in SubjectOf(users, tok) :
                /\ last.principal = id
                /\ users[id].failed_login_attempts = 5
                /\ LockedAt(users[id], now)
                /\ Matches(users, id, "N3w!Passw")

\* A pair issued at time t: an access and a refresh token expiring 30
\* minutes and 7 days later.
PairIssuedAt(resp, t) ==
    /\ resp.code = 200
    /\ Cardinality(resp.access) = 1 /\ Cardinality(resp.refresh) = 1
    /\ \A a \in resp.access : a.claims.type = "access" /\ a.claims.exp = t + 30
    /\ \A r \in resp.refresh : r.claims.type = "refresh" /\ r.claims.exp = t + 10080

\* C13: refresh tokens are not single-use.  A kept refresh token of an
\* active account that has not expired is exchanged now, then again, then a
\* third time (at the same instant or at its last valid one): each exchange
\* succeeds with a pair issued at its own time and changes no record, and
\* after it the token itself, the pair of the earlier exchange and every
\* other kept token are honoured as before.
C13_RefreshReusable ==
    /\ Idle =>
          \A tok \in held :
              (tok.claims.type = "refresh" /\ Decodes(tok, now)
                 /\ OwnerActive(users, tok)) =>
                  \A t2 \in {now, tok.claims.exp} :
                      LET r1 == refresh_access_token(users, now, tok)
                          r2 == refresh_access_token(r1.users, t2, tok)
                          r3 == refresh_access_token(r2.users, t2, tok)
                      IN /\ PairIssuedAt(r1.resp, now)
                         /\ PairIssuedAt(r2.resp, t2)
                         /\ PairIssuedAt(r3.resp, t2)
                         /\ r1.users = users /\ r2.users = users /\ r3.users = users
                         /\ Honoured(r3.users, tok, t2)
                         /\ \A x \in TokensOf(r1.resp) \cup held :
                               (Decodes(x, t2) /\ OwnerActive(users, x)) =>
                                   Honoured(r3.users, x, t2)
    /\ (last.op = "refresh" /\ last.code = 200) =>
          /\ PairIssuedAt(last, now)
          /\ users = prev
          /\ \A tok \in last.token \cup held :
                (Decodes(tok, now) /\ OwnerActive(users, tok)) =>
                    Honoured(users, tok, now)

\* The refresh token of the login at time 0 is exchanged at time 30 by a
\* client that also keeps an access token issued at time 15; no login was
\* made after time 0, so that access token came from exchanging the same
\* refresh token before.
C13_Witness ==
    /\ last.op = "refresh"
    /\ last.code = 200
    /\ now = 30
    /\ \E tok \in last.token \cap held :
          /\ tok.claims.type = "refresh"
          /\ tok.claims.exp = 10080
          /\ \E id \in SubjectOf(users, tok) : users[id].last_login_at = 0
          /\ \E a \in held : a.claims.type = "access" /\ a.claims.exp = 45

\* The instants, in ticks, at which a second issuance is made after one at
\* tick h: from one whole unit later on.
LaterTicks(h) == {h + TicksPerUnit, h + TicksPerUnit + 1, h + 15 * TicksPerUnit}

\* C14: two token issuances for the same user, by login or by refresh, at
\* two instants at least one timestamp unit (a second in the code) apart
\* yield two different access tokens: the expiry in the token is the
\* issuance time plus the fixed lifetime.
C14_LaterIssuanceDiffers ==
    /\ Idle =>
          \A id \in Accounts, p \in Passwords :
              \A h1 \in now * TicksPerUnit .. now * TicksPerUnit + TicksPerUnit - 1 :
                  \A h2 \in LaterTicks(h1) :
                      LET u == users[id]
                          first == login(users, numeric_date(h1), u.email, p)
                          again == login(first.users, numeric_date(h2), u.email, p)
                      IN /\ create_access_token(id, u.email, u.roles, numeric_date(h1))
                              # create_access_token(id, u.email, u.roles, numeric_date(h2))
                         /\ first.resp.code = 200 =>
                               /\ again.resp.code = 200
                               /\ again.resp.access \cap first.resp.access = {}
                               /\ \A r \in first.resp.refresh :
                                     LET swap == refresh_access_token(
                                                     first.users, numeric_date(h2), r)
                                     IN /\ swap.resp.code = 200
                                        /\ swap.resp.access \cap first.resp.access = {}
    /\ last.op \in {"login", "refresh"} =>
          \A a \in last.access, h \in held :
              (h.claims.type = "access" /\ h.claims.exp < now + 30) => a # h

\* A refresh at a later instant returns an access token for the account
\* whose access token of time 0 the client still holds: same subject, email
\* and roles, another token.
C14_Witness ==
    /\ last.op = "refresh"
    /\ last.code = 200
    /\ now > 0
    /\ \E a \in last.access, h \in held :
          /\ h.claims.type = "access"
          /\ h.claims.exp = 30
          /\ h.claims.sub = a.claims.sub
          /\ h.claims.email = a.claims.email
          /\ h.claims.roles = a.claims.roles
          /\ a # h

(* ================== properties of logout and password reset ============ *)
\* C15: logout succeeds for every caller presenting an access token that
\* decodes for an existing active account, and changes nothing on the
\* server: every user record is as it was, no token is issued, and the
\* token that logged out (like every other) is honoured afterwards as
\* before, also for a second logout.
C15_LogoutChangesNothing ==
    /\ last.op = "logout" =>
          /\ users = prev
          /\ NoTokens(last)
          /\ \A tok \in last.token :
                (Decodes(tok, now) /\ tok.claims.type = "access"
                   /\ OwnerActive(prev, tok)) =>
                    /\ last.code = 200
                    /\ last.detail = <<"Successfully logged out">>
                    /\ Honoured(users, tok, now)
    /\ Idle =>
          \A tok \in Presented(users, now) :
              LET out == logout(users, now, tok) IN
              /\ out.users = users
              /\ (Decodes(tok, now) /\ tok.claims.type = "access"
                    /\ OwnerActive(users, tok)) =>
                     /\ out.resp.code = 200
                     /\ Honoured(out.users, tok, now)
                     /\ logout(out.users, now, tok).resp.code = 200

\* A logout has just succeeded for an account with a login on record and
\* failures counted, while another account exists.
C15_Witness ==
    /\ last.op = "logout"
    /\ last.code = 200
    /\ last.principal # 0
    /\ users[last.principal].last_login_at # None
    /\ users[last.principal].failed_login_attempts > 0
    /\ \E j \in Others(last.principal) : users[j].exists

IsResetRequest == last.op = "password-reset-request"

\* C16: password-reset-request answers 200 with the generic message.  For
\* an email no account has it issues no token; for an email of an account it
\* issues exactly one token, of type password_reset, signed by the service,
\* carrying that email and expiring one hour later, which the reset decoder
\* accepts.  No user record is modified in either case.
C16_ResetRequestIssuesOneToken ==
    IsResetRequest =>
        /\ last.code = 200
        /\ last.detail = <<"If the email exists, a password reset link has been sent">>
        /\ users = prev
        /\ last.access = {} /\ last.refresh = {}
        /\ ByEmail(prev, last.email) = {} => last.reset = {}
        /\ ByEmail(prev, last.email) # {} =>
              /\ last.reset =
                    {[wellformed |-> TRUE, key |-> "service-secret",
                      claims |-> [sub |-> "None", email |-> last.email,
                                  roles |-> <<>>, exp |-> now + 60,
                                  type |-> "password_reset"]]}
              /\ \A tok \in last.reset :
                    /\ decode_password_reset_token(tok, now) = last.email
                    /\ decode_password_reset_token(tok, now + 60) = last.email

\* A reset is requested for the email of a locked account, after the clock
\* has moved: a token is issued and the record stays as it is.
C16_Witness ==
    /\ IsResetRequest
    /\ now > 0
    /\ last.reset # {}
    /\ \E id \in ByEmail(prev, last.email) :
          LockedAt(users[id], now) /\ users[id].failed_login_attempts = 5

\* C17 as stated: password-reset-request reports success and the response
\* is the same whether or not the email belongs to an account: status 200,
\* the generic message and nothing else.
C17_SameAnswerEitherWay ==
    IsResetRequest =>
        Seen(last) = <<200, <<"If the email exists, a password reset link has been sent">>,
                       {}, {}, {}>>

IsResetConfirm == last.op = "password-reset-confirm"

\* A token the reset decoder accepts at time t.
ResetTokenGood(tok, t) == Decodes(tok, t) /\ tok.claims.type = "password_reset"

\* C18: password-reset-confirm answers 400 (InvalidToken) when the token
\* does not decode, is expired or is not of type password_reset, and 404
\* (UserNotFound) when it is good but no account has its email; whenever
\* the call fails every user record (hash, counter and lock included) is as
\* it was.
C18_ResetConfirmFailures ==
    /\ IsResetConfirm =>
          /\ last.code # 200 => users = prev
          /\ \A tok \in last.token :
                /\ ~ResetTokenGood(tok, now) =>
                      /\ last.code = 400
                      /\ last.detail = <<"Invalid or expired reset token">>
                /\ (ResetTokenGood(tok, now) /\ ByEmail(prev, tok.claims.email) = {}) =>
                      /\ last.code = 404
                      /\ last.detail = <<"User not found">>
    /\ Idle =>
          \A tok \in Presented(users, now), p \in Passwords :
              \A h \in HashesOf(p) :
                  LET out == confirm_password_reset(users, now, tok, p, h) IN
                  /\ ~ResetTokenGood(tok, now) =>
                        out.resp.code = 400 /\ out.users = users
                  /\ (ResetTokenGood(tok, now) /\ ByEmail(users, tok.claims.email) = {}) =>
                        out.resp.code = 404 /\ out.users = users

\* A good reset token for an email no account has is confirmed while
\* accounts exist, one of them locked: 404, nothing changes.
C18_Witness ==
    /\ IsResetConfirm
    /\ last.code = 404
    /\ \E tok \in last.token :
          ResetTokenGood(tok, now) /\ ByEmail(prev, tok.claims.email) = {}
    /\ \E id \in Accounts : LockedAt(users[id], now)

\* C19: a successful password-reset-confirm leaves the account of the
\* token's email with a hash the new password verifies against, counter 0
\* and no lock, and changes nothing else; a login made next with the new
\* password answers 200 if the account is active, and one made with the
\* password in use before, if the new one differs from it, answers 401.
C19_ResetConfirmTakesEffect ==
    (IsResetConfirm /\ last.code = 200) =>
        \A tok \in last.token :
            /\ ByEmail(prev, tok.claims.email) # {}
            /\ \A id \in ByEmail(prev, tok.claims.email) :
                  /\ Matches(users, id, last.new_password)
                  /\ verify_password(last.new_password, users[id].password_hash)
                  /\ users[id].failed_login_attempts = 0
                  /\ users[id].locked_until = None
                  /\ users[id] = [prev[id] EXCEPT
                                     !.password_hash = users[id].password_hash,
                                     !.failed_login_attempts = 0,
                                     !.locked_until = None]
                  /\ Untouched(Others(id))
                  /\ users[id].status = "active" =>
                        LET new == login(users, now, users[id].email, last.new_password)
                        IN new.resp.code = 200 /\ new.resp.access # {}
                  /\ \A old \in Passwords :
                        (Matches(prev, id, old) /\ old # last.new_password) =>
                            LET try == login(users, now, users[id].email, old)
                            IN try.resp.code = 401 /\ NoTokens(try.resp)

\* The password of an active account locked by five failures has just been
\* reset to another one.
C19_Witness ==
    /\ IsResetConfirm
    /\ last.code = 200
    /\ \E id \in Accounts :
          /\ prev[id].failed_login_attempts = 5
          /\ LockedAt(prev[id], now)
          /\ prev[id].status = "active"
          /\ ~Matches(prev, id, last.new_password)
          /\ Matches(users, id, last.new_password)

\* A kept reset token that is good at time t for an email an account has.
Confirmable(U, tok, t) ==
    ResetTokenGood(tok, t) /\ ByEmail(U, tok.claims.email) # {}

\* C20: password-reset tokens are neither consumed by use nor superseded.
\* Every kept reset token that has not expired, for an email an account
\* has, is confirmed successfully now, and again after that (at the same
\* instant and at its last valid one), whatever the new passwords are; and
\* after it was confirmed every other kept reset token, and one issued just
\* now for the same email, is confirmed successfully as well.
C20_ResetTokensReusable ==
    /\ Idle =>
          \A tok \in held :
              Confirmable(users, tok, now) =>
                  \A p1 \in Passwords, p2 \in Passwords, t2 \in {now, tok.claims.exp} :
                      \A h1 \in HashesOf(p1), h2 \in HashesOf(p2) :
                          LET c1 == confirm_password_reset(users, now, tok, p1, h1)
                              c2 == confirm_password_reset(c1.users, t2, tok, p2, h2)
                              issued == request_password_reset(
                                            c1.users, now, tok.claims.email).resp.reset
                          IN /\ c1.resp.code = 200
                             /\ c2.resp.code = 200
                             /\ \A other \in held \cup issued :
                                   Confirmable(users, other, t2) =>
                                       /\ confirm_password_reset(
                                              c1.users, t2, other, p2, h2).resp.code = 200
                                       /\ confirm_password_reset(
                                              c2.users, t2, other, p1, h1).resp.code = 200
    /\ IsResetConfirm =>
          \A tok \in last.token : Confirmable(prev, tok, now) => last.code = 200

\* The reset token issued at time 0 is confirmed at a later instant by a
\* client that keeps nothing but this and a later reset token for the same
\* email, on an account whose password had been reset before (no bearer
\* token was kept, so only a confirmation can have changed it).
C20_Witness ==
    /\ IsResetConfirm
    /\ last.code = 200
    /\ now > 0
    /\ \E tok \in last.token \cap held, other \in held :
          /\ tok.claims.type = "password_reset" /\ tok.claims.exp = 60
          /\ other.claims.type = "password_reset" /\ other.claims.exp > 60
          /\ other.claims.email = tok.claims.email
          /\ held = {tok, other}
          /\ \E id \in ByEmail(prev, tok.claims.email) :
                Matches(prev, id, "N3w!Passw")

(* ===================== properties of change-password =================== *)
IsChangePassword == last.op = "change-password"

\* C21: for an authenticated caller change-password answers 401 when the
\* current password given does not match the stored hash, otherwise 400
\* when the new password equals the current one, and in both cases changes
\* nothing; otherwise it answers 200, the stored hash becomes one the new
\* password verifies against, and nothing else changes in the caller's
\* record (counter, lock, roles, status, last login) or in any other.
C21_ChangePasswordOutcomes ==
    IsChangePassword =>
        /\ last.principal = 0 => users = prev /\ last.code \in {401, 403}
        /\ last.principal # 0 =>
              LET id == last.principal IN
              /\ ~Matches(prev, id, last.password) =>
                    /\ last.code = 401
                    /\ last.detail = <<"Current password is incorrect">>
                    /\ users = prev
              /\ (Matches(prev, id, last.password)
                    /\ last.password = last.new_password) =>
                    /\ last.code = 400
                    /\ last.detail =
                          <<"New password must be different from current password">>
                    /\ users = prev
              /\ (Matches(prev, id, last.password)
                    /\ last.password # last.new_password) =>
                    /\ last.code = 200
                    /\ Matches(users, id, last.new_password)
                    /\ verify_password(last.new_password, users[id].password_hash)
                    /\ ~verify_password(last.password, users[id].password_hash)
                    /\ users[id] = [prev[id] EXCEPT
                                       !.password_hash = users[id].password_hash]
                    /\ Untouched(Others(id))

\* The password of a locked account with five failures counted has just
\* been changed by its holder.
C21_Witness ==
    /\ IsChangePassword
    /\ last.code = 200
    /\ last.principal # 0
    /\ prev[last.principal].failed_login_attempts = 5
    /\ LockedAt(prev[last.principal], now)
    /\ last.password # last.new_password

(* ===================== properties of bearer resolution ================= *)
\* The token decodes, is an access token and names a record of the table.
NamesAccount(U, tok, t) ==
    Decodes(tok, t) /\ tok.claims.type = "access" /\ SubjectOf(U, tok) # {}
NamesActive(U, tok, t) ==
    NamesAccount(U, tok, t) /\ \A i \in SubjectOf(U, tok) : U[i].status = "active"
Unauthenticated(r) ==
    ~r.ok /\ r.code = 401 /\ r.detail = <<"Could not validate credentials">>
BehindBearer == {"logout", "change-password"}

\* C22 as stated: whenever bearer resolution yields no principal, a
\* required-auth endpoint is rejected with 401.
C22_RequiredAuthAlways401 ==
    /\ Idle => \A tok \in Presented(users, now) :
            ~NamesActive(users, tok, now) =>
                Unauthenticated(get_current_user(users, now, tok))
    /\ (last.op \in BehindBearer /\ last.principal = 0) => last.code = 401

\* C22: bearer resolution yields a principal exactly when the token decodes,
\* has type access and names an existing active user, and the principal is
\* that user. A token naming an existing user that is not active gives None
\* to an optional-auth endpoint and 403 'User account is <status>' to a
\* required-auth one; every other token gives None and 401.
C22_BearerResolution ==
    /\ Idle => \A tok \in Presented(users, now) :
          LET required == get_current_user(users, now, tok)
              optional == get_optional_current_user(users, now, {tok})
          IN
          /\ NamesActive(users, tok, now) =>
                /\ required.ok
                /\ required.id \in SubjectOf(users, tok)
                /\ optional = required.id
          /\ (NamesAccount(users, tok, now) /\ ~NamesActive(users, tok, now)) =>
                /\ optional = 0
                /\ ~required.ok
                /\ required.code = 403
                /\ \E i \in SubjectOf(users, tok) :
                      required.detail = <<"User account is ", users[i].status>>
          /\ ~NamesAccount(users, tok, now) =>
                optional = 0 /\ Unauthenticated(required)
    /\ get_optional_current_user(users, now, {}) = 0
    /\ last.op = "optional-auth" =>
          /\ users = prev
          /\ last.principal # 0 <=>
                \E tok \in last.token : NamesActive(prev, tok, now)
          /\ last.principal # 0 =>
                \E tok \in last.token : last.principal \in SubjectOf(prev, tok)
    /\ last.op \in BehindBearer =>
          \A tok \in last.token :
              /\ last.principal # 0 <=> NamesActive(prev, tok, now)
              /\ (NamesAccount(prev, tok, now) /\ ~NamesActive(prev, tok, now)) =>
                    last.code = 403 /\ users = prev
              /\ ~NamesAccount(prev, tok, now) =>
                    last.code = 401 /\ users = prev

\* An optional-auth request carrying a good access token of a suspended
\* account has gone through unauthenticated.
C22_Witness ==
    /\ last.op = "optional-auth"
    /\ last.principal = 0
    /\ \E tok \in last.token :
          /\ NamesAccount(prev, tok, now)
          /\ \E i \in SubjectOf(prev, tok) : prev[i].status = "suspended"

(* ======================= properties of registration ==================== *)
IsRegister == last.op = "register"
\* The submitted texts that satisfy the schema, listed one by one.
StrongPasswords == {"Str0ng!Pass", "N3w!Passw", "Aa1!aaaa", LongPassword}
GoodPhones == {NoneStr, "+919876543210", "9876543211"}
ValidData(call) ==
    /\ call.password \in StrongPasswords
    /\ call.phone \in GoodPhones
    /\ call.name = "Alice A"
EmailTaken(call) == \E i \in Registered(prev) : prev[i].email = call.email
PhoneTaken(call) ==
    call.phone # NoneStr /\ \E i \in Registered(prev) : prev[i].phone = call.phone

\* C28: at most one account holds any email in every reachable state, and a
\* registration with the email of an existing account creates no account
\* and leaves every account unchanged; when its data pass validation it is
\* answered 400 'Email already registered'.
C28_EmailRegistersOnce ==
    /\ \A i, j \in Accounts : users[i].email = users[j].email => i = j
    /\ (IsRegister /\ EmailTaken(last)) =>
          /\ users = prev
          /\ last.code \in {400, 422}
          /\ last.body = {}
          /\ ValidData(last) =>
                /\ last.code = 400
                /\ last.detail = <<"Email already registered">>

\* A second registration with the email of an account, with another
\* password, phone and a free key at hand, has been refused.
C28_Witness ==
    /\ IsRegister
    /\ EmailTaken(last)
    /\ ValidData(last)
    /\ ~PhoneTaken(last)
    /\ last.phone # NoneStr
    /\ Registered(prev) # UserIds
    /\ \E i \in Registered(prev) :
          prev[i].email = last.email /\ ~Matches(prev, i, last.password)
    /\ last.code = 400

Lacks(class, v) == \A i \in 1..Len(v) : v[i] \notin class
Weak(v) ==
    \/ Len(v) < 8
    \/ Lacks(Uppercase, v)
    \/ Lacks(Lowercase, v)
    \/ Lacks(Digits, v)
    \/ Lacks(SpecialCharacters, v)

\* C29: a registration whose password is shorter than 8 characters or has
\* no uppercase letter, no lowercase letter, no digit or no special
\* character is answered 422 and the set of accounts, and every account,
\* is as it was.
C29_WeakPasswordRejected ==
    (IsRegister /\ Weak(Text(last.password))) =>
        /\ last.code = 422
        /\ Accounts = Registered(prev)
        /\ users = prev
        /\ last.body = {}

\* A registration with an unused email, a good phone and name, and a
\* password of 11 characters whose only fault is to have no digit.
C29_Witness ==
    /\ IsRegister
    /\ last.password = "Strong!Pass"
    /\ ~EmailTaken(last)
    /\ last.phone = "+919876543210"
    /\ last.name = "Alice A"
    /\ last.code = 422

\* C30: a registration with valid data, an unused email and an unused phone
\* succeeds, and every registration that succeeds adds exactly one account,
\* with roles [seeker], status active, verified false, counter 0, no lock,
\* the submitted email, phone and name and a hash of the submitted
\* password, leaving the other accounts as they were; the user object of
\* the response has neither a password nor a password_hash attribute.
C30_RegistrationCreatesOneAccount ==
    IsRegister =>
        /\ (ValidData(last) /\ ~EmailTaken(last) /\ ~PhoneTaken(last)) =>
              last.code = 201
        /\ last.code = 201 =>
              LET id == last.principal IN
              /\ id \in UserIds \ Registered(prev)
              /\ Accounts = Registered(prev) \cup {id}
              /\ Untouched(Others(id))
              /\ users[id].roles = <<"seeker">>
              /\ users[id].status = "active"
              /\ users[id].verified = FALSE
              /\ users[id].failed_login_attempts = 0
              /\ users[id].locked_until = -1
              /\ users[id].email = last.email
              /\ users[id].phone = last.phone
              /\ users[id].name = last.name
              /\ Matches(users, id, last.password)
              /\ Cardinality(last.body) = 1
              /\ \A b \in last.body :
                    /\ DOMAIN b = {"id", "email", "phone", "name", "roles",
                                   "verified", "status", "profile_photo",
                                   "bio", "privacy_settings"}
                    /\ b.email = last.email
                    /\ b.roles = <<"seeker">>
                    /\ b.verified = FALSE
                    /\ \A f \in {"id", "email", "phone", "name", "status"} :
                          b[f] # last.password
        /\ last.code # 201 => users = prev /\ last.body = {}

\* A second account has been created, with a phone number, next to one
\* that was there before.
C30_Witness ==
    /\ IsRegister
    /\ last.code = 201
    /\ last.phone # NoneStr
    /\ Registered(prev) # {}
    /\ Cardinality(Accounts) = 2

(* ========================== properties of roles ======================== *)
RoleCalls == {"add-role", "remove-role"}
\* The account a call's token names, and its roles on record when the call
\* was made.
CallerOf(call) == UNION {SubjectOf(prev, tok) : tok \in call.token}
HasRole(U, id, r) == \E k \in 1..Len(U[id].roles) : U[id].roles[k] = r
Overlap(U, id, allowed) ==
    \E k \in 1..Len(allowed) : HasRole(U, id, allowed[k])

\* C23: for an authenticated caller, require_roles(allowed) lets the caller
\* through as the principal exactly when a role of the caller's record is
\* among the allowed ones, and answers 403 otherwise, changing nothing; it
\* answers 403 whenever the allowed list is empty or the caller has no role.
C23_RequireRolesIntersection ==
    last.op = "require-roles" =>
        /\ users = prev
        /\ CallerOf(last) # {}
        /\ \A id \in CallerOf(last) :
              /\ Overlap(prev, id, last.allowed) =>
                    last.code = 200 /\ last.principal = id
              /\ ~Overlap(prev, id, last.allowed) =>
                    /\ last.code = 403
                    /\ last.detail =
                          <<"User does not have required role. Required: ",
                            last.allowed>>
              /\ (last.allowed = <<>> \/ prev[id].roles = <<>>) => last.code = 403

\* A caller left with no role has been refused by a guard that allows
\* seeker and admin.
C23_Witness ==
    /\ last.op = "require-roles"
    /\ last.allowed = <<"seeker", "admin">>
    /\ \E id \in CallerOf(last) : prev[id].roles = <<>>
    /\ last.code = 403

\* C24: add_user_role and remove_user_role called by an authenticated user
\* whose roles on record do not include admin answer 403 whatever the target
\* and the role are, and change no account; a call that is not refused in
\* this way was made by an admin.
C24_OnlyAdminChangesRoles ==
    last.op \in RoleCalls =>
        /\ CallerOf(last) # {}
        /\ \A id \in CallerOf(last) :
              /\ ~HasRole(prev, id, "admin") =>
                    /\ last.code = 403
                    /\ last.detail \in {<<"Only admins can add roles">>,
                                        <<"Only admins can remove roles">>}
                    /\ users = prev
                    /\ last.body = {}
              /\ HasRole(prev, id, "admin") => last.code \in {200, 400, 404}
        /\ users # prev => \E id \in CallerOf(last) : HasRole(prev, id, "admin")

\* A caller who is not admin has asked to add a role that does not exist to
\* a user that does not exist.
C24_Witness ==
    /\ last.op = "add-role"
    /\ last.target = 3
    /\ last.role = "superuser"
    /\ \E id \in CallerOf(last) : ~HasRole(prev, id, "admin")
    /\ last.code = 403

\* C25 as stated: in every reachable state every account has at least one
\* role.
C25_RolesNeverEmpty == \A i \in Accounts : users[i].roles # <<>>

RoleEnumeration == {"seeker", "owner", "agent", "admin"}
NoDuplicates(list) ==
    \A i, j \in 1..Len(list) : list[i] = list[j] => i = j

\* C26: every account's role list holds only seeker, owner, agent or admin
\* and holds no value twice; an admin adding a role the target already holds
\* is answered 200 with the list as it was and nothing changes; adding a
\* value outside the enumeration to an existing user is answered 400 and
\* nothing changes.
C26_RoleListWellFormed ==
    /\ \A i \in Accounts :
          /\ \A k \in 1..Len(users[i].roles) : users[i].roles[k] \in RoleEnumeration
          /\ NoDuplicates(users[i].roles)
    /\ (/\ last.op = "add-role"
        /\ \E id \in CallerOf(last) : HasRole(prev, id, "admin")
        /\ last.target \in Registered(prev)) =>
          /\ HasRole(prev, last.target, last.role) =>
                /\ last.code = 200
                /\ users = prev
                /\ \A b \in last.body : b.roles = prev[last.target].roles
          /\ last.role \notin RoleEnumeration =>
                /\ last.code = 400
                /\ users = prev
                /\ last.body = {}

\* An admin has added seeker to a user whose roles are seeker and admin.
C26_Witness ==
    /\ last.op = "add-role"
    /\ last.code = 200
    /\ last.role = "seeker"
    /\ last.target \in Registered(prev)
    /\ prev[last.target].roles = <<"seeker", "admin">>
    /\ last.target \notin CallerOf(last)

AdminRefusal ==
    /\ last.code = 403
    /\ last.detail \in {<<"Only admins can add roles">>,
                        <<"Only admins can remove roles">>}
InSnapshot(tok, r) ==
    \E k \in 1..Len(tok.claims.roles) : tok.claims.roles[k] = r

\* C27 as stated: the admin check of the role endpoints follows the roles
\* snapshot of the access token the request carries.
C27_DecisionsFollowSnapshot ==
    last.op \in RoleCalls =>
        \A tok \in last.token : AdminRefusal <=> ~InSnapshot(tok, "admin")

\* C27: role-based decisions follow the roles of the caller's record as it
\* is when the request is served, whatever the roles claim of the access
\* token says: the role endpoints refuse the caller as no admin exactly
\* when the record lacks admin, and require_roles refuses exactly when no
\* role of the record is allowed.
C27_DecisionsFollowRecord ==
    /\ last.op \in RoleCalls =>
          \A id \in CallerOf(last) :
              AdminRefusal <=> ~HasRole(prev, id, "admin")
    /\ last.op = "require-roles" =>
          \A id \in CallerOf(last) :
              last.code = 403 <=> ~Overlap(prev, id, last.allowed)

\* A caller whose access token was issued while admin was among the roles,
\* and whose record has since lost admin, has been refused as no admin.
C27_Witness ==
    /\ last.op \in RoleCalls
    /\ AdminRefusal
    /\ \E tok \in last.token : InSnapshot(tok, "admin")
    /\ \E id \in CallerOf(last) : ~HasRole(prev, id, "admin")

(* ================== properties of login on special accounts ============ *)
\* C34: on an unlocked account whose status is not active, a wrong password
\* is answered as on an active account: 401 'Incorrect email or password'
\* with the counter one higher, or, when that makes the counter 5 or more,
\* 403 with the account locked for 15 minutes.  The correct password is
\* answered 403 'Account is <status>', with no token, and leaves the record
\* (counter, lock, last login) and every other record unchanged.
C34_InactiveAccountLogin ==
    IsLogin =>
        \A id \in Named :
            (prev[id].status # "active" /\ ~LockedAt(prev[id], now)) =>
                /\ ~Matches(prev, id, last.password) =>
                      /\ users[id].failed_login_attempts =
                            prev[id].failed_login_attempts + 1
                      /\ users[id].last_login_at = prev[id].last_login_at
                      /\ users[id].status = prev[id].status
                      /\ NoTokens(last)
                      /\ Untouched(Others(id))
                      /\ prev[id].failed_login_attempts + 1 < 5 =>
                            /\ last.code = 401
                            /\ last.detail = <<"Incorrect email or password">>
                            /\ users[id].locked_until = prev[id].locked_until
                      /\ prev[id].failed_login_attempts + 1 >= 5 =>
                            /\ last.code = 403
                            /\ users[id].locked_until = now + 15
                /\ Matches(prev, id, last.password) =>
                      /\ last.code = 403
                      /\ last.detail = <<"Account is ", prev[id].status>>
                      /\ NoTokens(last)
                      /\ users = prev

\* The correct password has been given for a suspended account that has
\* five failures counted and a lock that has expired.
C34_Witness ==
    /\ IsLogin
    /\ last.code = 403
    /\ \E id \in Named :
          /\ prev[id].status = "suspended"
          /\ Matches(prev, id, last.password)
          /\ prev[id].failed_login_attempts = 5
          /\ prev[id].locked_until # -1
          /\ ~LockedAt(prev[id], now)

\* C36: a login made while the account is locked changes no record,
\* whether the password is right or wrong (counter, locked_until and
\* last_login_at are as they were), and issues no token; a login for an
\* email no account has changes no record either.
C36_LockedLoginChangesNothing ==
    IsLogin =>
        /\ Named = {} => users = prev /\ NoTokens(last)
        /\ \A id \in Named :
              LockedAt(prev[id], now) =>
                  /\ users = prev
                  /\ users[id].failed_login_attempts = prev[id].failed_login_attempts
                  /\ users[id].locked_until = prev[id].locked_until
                  /\ users[id].last_login_at = prev[id].last_login_at
                  /\ NoTokens(last)
                  /\ last.code = 403

\* A wrong password has been given ten minutes into a lock.
C36_Witness ==
    /\ IsLogin
    /\ \E id \in Named :
          /\ LockedAt(prev[id], now)
          /\ prev[id].locked_until = now + 5
          /\ ~Matches(prev, id, last.password)

\* C37: every account has a counter of 0 or more, a lock only with a
\* counter of 5 or more, and no call lowers the counter or unsets the lock
\* without leaving the counter at 0 and the lock unset.
C37_CounterAndLockTogether ==
    /\ \A id \in Accounts :
          /\ users[id].failed_login_attempts >= 0
          /\ users[id].locked_until # -1 => users[id].failed_login_attempts >= 5
    /\ \A id \in Registered(prev) :
          (\/ users[id].failed_login_attempts < prev[id].failed_login_attempts
           \/ (prev[id].locked_until # -1 /\ users[id].locked_until = -1)) =>
              /\ users[id].failed_login_attempts = 0
              /\ users[id].locked_until = -1

\* A login has succeeded on an account with five failures counted and an
\* expired lock: both are cleared.
C37_Witness ==
    /\ IsLogin
    /\ last.code = 200
    /\ \E id \in Named :
          /\ prev[id].failed_login_attempts = 5
          /\ prev[id].locked_until # -1
          /\ users[id].failed_login_attempts = 0
          /\ users[id].locked_until = -1

\* C35: the end of a lock does not reset the counter.  A wrong password on
\* an unlocked account sets the lock exactly when the counter it leaves is 5
\* or more; so on an account whose lock has expired, the counter still being
\* 5 or more, one wrong password is answered AccountLocked (403) and locks
\* the account for 15 minutes from that attempt.
C35_RelockAfterExpiry ==
    /\ \A id \in Accounts :
          users[id].locked_until # -1 => users[id].failed_login_attempts >= 5
    /\ IsLogin =>
          \A id \in Named :
              (~LockedAt(prev[id], now) /\ ~Matches(prev, id, last.password)) =>
                  /\ users[id].failed_login_attempts =
                        prev[id].failed_login_attempts + 1
                  /\ prev[id].failed_login_attempts + 1 >= 5 =>
                        /\ last.code = 403
                        /\ last.detail = LockedFor15Minutes
                        /\ users[id].locked_until = now + 15
                  /\ prev[id].failed_login_attempts + 1 < 5 =>
                        /\ last.code = 401
                        /\ users[id].locked_until = prev[id].locked_until
                        /\ users[id].locked_until = -1

\* One wrong password, given at the minute a lock ran out on an account
\* with five failures counted, has locked the account again.
C35_Witness ==
    /\ IsLogin
    /\ last.code = 403
    /\ \E id \in Named :
          /\ prev[id].failed_login_attempts = 5
          /\ prev[id].locked_until = now
          /\ ~Matches(prev, id, last.password)
          /\ users[id].failed_login_attempts = 6
          /\ users[id].locked_until = now + 15

(* ========================= properties of profiles ====================== *)
\* The accounts a call's token authenticates: it is a good access token of
\* an active account.
AuthCaller(call) ==
    {id \in UserIds : \E tok \in call.token :
                          NamesActive(prev, tok, now) /\ id \in SubjectOf(prev, tok)}
IsView == last.op = "view-profile"
IsUpdate == last.op = "update-profile"

\* C31: a profile read by anyone but its owner (another user, a caller with
\* no token, or one whose token does not authenticate) shows no email when
\* hide_email is true and no phone when hide_phone is true, and shows them
\* otherwise; read by its owner, authenticated with an access token, it
\* shows the email and the phone on record whatever the settings are.
C31_ProfileVisibility ==
    (IsView /\ last.target \in Registered(prev)) =>
        LET user == prev[last.target]
            owner == last.target \in AuthCaller(last)
        IN
        /\ last.code = 200
        /\ users = prev
        /\ Cardinality(last.body) = 1
        /\ \A b \in last.body :
              /\ owner => b.email = user.email /\ b.phone = user.phone
              /\ ~owner =>
                    /\ b.email = IF user.privacy_settings.hide_email = "true"
                                 THEN "None" ELSE user.email
                    /\ b.phone = IF user.privacy_settings.hide_phone = "true"
                                 THEN "None" ELSE user.phone

\* Another authenticated user has read a profile that hides its email and
\* not its phone.
C31_Witness ==
    /\ IsView
    /\ last.code = 200
    /\ last.target \in Registered(prev)
    /\ AuthCaller(last) # {}
    /\ last.target \notin AuthCaller(last)
    /\ prev[last.target].privacy_settings.hide_email = "true"
    /\ prev[last.target].privacy_settings.hide_phone = "unset"
    /\ prev[last.target].phone # "None"
    /\ \A b \in last.body : b.email = "None" /\ b.phone = prev[last.target].phone

\* The bodies that satisfy the UserUpdate schema, by what they hold.
ValidUpdate(payload) == "" \notin payload.name /\ "0123456789" \notin payload.phone

\* C32: an update request (PUT or PATCH) of an authenticated caller whose
\* path id is not the caller's changes no account and returns no user
\* object whatever the body is; with a body that passes validation it is
\* answered 403 'You can only update your own profile' (a body that does
\* not is answered 422 first).
C32_OwnProfileOnly ==
    IsUpdate =>
        \A id \in AuthCaller(last) :
            last.target # id =>
                /\ users = prev
                /\ last.body = {}
                /\ last.code \in {403, 422}
                /\ \A p \in last.payload :
                      ValidUpdate(p) =>
                          /\ last.code = 403
                          /\ last.detail = <<"You can only update your own profile">>

\* A user has asked to rename another, existing user and to hide that
\* user's contact data.
C32_Witness ==
    /\ IsUpdate
    /\ last.code = 403
    /\ AuthCaller(last) # {}
    /\ last.target \in Registered(prev) \ AuthCaller(last)
    /\ \E p \in last.payload : p.name = {"Bob B"} /\ p.privacy_settings # {}

Updatable == {"name", "phone", "profile_photo", "bio", "privacy_settings"}
Protected ==
    {"exists", "email", "password_hash", "roles", "status", "verified",
     "failed_login_attempts", "locked_until", "last_login_at"}

\* C38: an update request never changes the email, password hash, roles,
\* status, verified flag, counter, lock or last login of any account, nor
\* any field of an account other than the caller's, nor the set of
\* accounts; of the caller's name, phone, profile_photo, bio and
\* privacy_settings it changes none that the body does not hold, and when
\* it succeeds those the body holds have the values sent.
C38_UpdateFrame ==
    IsUpdate =>
        /\ Registered(users) = Registered(prev)
        /\ \A j \in Registered(prev) :
              /\ \A f \in Protected : users[j][f] = prev[j][f]
              /\ j \notin AuthCaller(last) => users[j] = prev[j]
              /\ \A p \in last.payload : \A f \in Updatable :
                    /\ p[f] = {} => users[j][f] = prev[j][f]
                    /\ (last.code = 200 /\ j \in AuthCaller(last) /\ p[f] # {}) =>
                          users[j][f] \in p[f]
        /\ last.code # 200 => users = prev

\* An update whose body also names roles and email has succeeded and
\* changed the bio.
C38_Witness ==
    /\ IsUpdate
    /\ last.code = 200
    /\ \E p \in last.payload : p.roles # {} /\ p.email # {} /\ p.bio # {}
    /\ \E id \in AuthCaller(last) :
          /\ users[id].bio # prev[id].bio
          /\ users[id].roles = <<"seeker">>

(* ==================== properties of privilege changes ================== *)
NobodyAdmin(U) == \A j \in Registered(U) : ~HasRole(U, j, "admin")

\* C39: an account created by a call is created by registration with
\* roles [seeker]; the roles of an existing account differ after a call
\* only when the call is add_user_role or remove_user_role on that account,
\* answered 200, by an authenticated caller whose record held admin when
\* the call was made; and a call served while no account holds admin,
\* whatever it is, leaves no account holding admin.
C39_NoPrivilegeEscalation ==
    /\ \A j \in Registered(users) \ Registered(prev) :
          last.op = "register" /\ users[j].roles = <<"seeker">>
    /\ \A j \in Registered(prev) :
          users[j].roles # prev[j].roles =>
              /\ last.op \in RoleCalls
              /\ last.code = 200
              /\ last.target = j
              /\ \E id \in AuthCaller(last) : HasRole(prev, id, "admin")
    /\ NobodyAdmin(prev) => NobodyAdmin(users)

\* While nobody is admin, a user has asked to be given admin and has been
\* refused.
C39_Witness ==
    /\ last.op = "add-role"
    /\ last.role = "admin"
    /\ last.target \in AuthCaller(last)
    /\ NobodyAdmin(prev)
    /\ last.code = 403
    /\ NobodyAdmin(users)

(* ================= properties of requests that interleave ============== *)
HasAccount(email) == \E i \in UserIds : users[i].exists /\ users[i].email = email
LockStands(email) ==
    \E i \in UserIds :
        users[i].exists /\ users[i].email = email /\ LockedAt(users[i], now)

\* C33: wrong-password logins on one account run read, increment, compare
\* and write as separate steps in any interleaving.  No step of a failed
\* attempt takes a written lock away or shortens it, and while the attempts
\* keep coming the account is locked in the end; the stored counter may
\* fall behind the number of failures.
C33_LockNeverLost ==
    /\ [][\A i \in UserIds :
              (users[i].exists /\ users[i].locked_until # None) =>
                  /\ users'[i].exists
                  /\ users'[i].locked_until # None
                  /\ users'[i].locked_until >= users[i].locked_until]_vars
    /\ (HasAccount(Alice) ~> LockStands(Alice))

\* The lock has been written and an attempt that had read the counter
\* before has written it back below the threshold since: the counter is
\* behind, the lock stands.
C33_Witness ==
    \E i \in UserIds :
        /\ users[i].exists
        /\ LockedAt(users[i], now)
        /\ users[i].failed_login_attempts < LOCK_THRESHOLD
        /\ \E c \in Clients : flight[c].op = "login" /\ flight[c].code = 401

\* C40: when registrations with one email interleave, at most one account
\* with that email exists afterwards, and a request that did not create
\* the account has answered 400 (email already registered).
C40_LoserReportsDuplicate ==
    /\ Cardinality(ByEmail(users, Alice)) <= 1
    /\ \A c \in Clients :
          (flight[c].op = "register" /\ flight[c].pc = "idle") =>
              flight[c].code \in {201, 400}

====
